---- MODULE Spec2Model ----
(***************************************************************************)
(* Toolpath generation of the G-code generator (Gcode generator/main.js). *)
(*                                                                         *)
(* Lengths are fixed-point integers: one unit is 0.01 mm, for X, Y, Z and  *)
(* arc length alike.  The tolerances of the source (1e-6, 1e-9) lie below  *)
(* this resolution, so "a < b - 1e-6" on grid values is "a < b".           *)
(***************************************************************************)
EXTENDS Integers, Sequences, FiniteSets, TLC

VARIABLES
    gPc,        \* generateToolpath: "input", "layers", "done", or "hang" (a loop never ends)
    params,     \* the validated request handed to generateToolpath
    depths,     \* computeDepthLevels of the request
    paths,      \* contourPath (one path), pocketPaths or letterPaths
    gTabConfig, \* the tab configuration of a contour operation, or None
    calls,      \* number of addLayerForPath calls made so far
    gMoves,     \* the move list, before applyOriginTransform
    from,       \* length of moves before the latest step of generateToolpath
    outMoves,   \* the move list generateToolpath returns
    tPc,        \* tab modulator: "input", then "walk" along the contour, "none" if no config
    tIn,        \* the arguments of buildTabConfig and the layer depth of the walk
    tCfg,       \* the tab configuration buildTabConfig returned
    tS,         \* arc-length position of the walk along the closed contour
    tZ,         \* getZForTabProfile at tS
    tPrevZ,     \* getZForTabProfile at the position before tS
    dPc,        \* depth scheduler: "input" before, "done" after computeDepthLevels
    dTotal,     \* cutParams.totalDepth handed to computeDepthLevels
    dStep,      \* cutParams.stepdown handed to computeDepthLevels
    dLevels,    \* the array computeDepthLevels returned
    oPc,        \* offset engine: "input", "offset", "back"; "ringsInput", "rings"
    oContour,   \* the contour handed to contourOffset / pocketRingsFromInnerContour
    oDist,      \* the signed distance handed to contourOffset
    oStepover,  \* the stepover handed to pocketRingsFromInnerContour
    oOut,       \* contourOffset(oContour, oDist): None is null
    oBack,      \* contourOffset(oOut, -oDist)
    oRings,     \* the rings pocketRingsFromInnerContour returned
    sPc,        \* spiral pocket: "input" before, "done" after generateSpiralPocketCircle
    sIn,        \* diameter, stepover and toolRadius handed to generateSpiralPocketCircle
    sPolar,     \* the returned points, as radius and angle
    aPc,        \* arc fitting: "scan" the moves, "fit" a cut run, "done"
    aIn,        \* the move list as handed to replaceCutRunsWithArcs
    aMoves,     \* the move list, replaced in place at the end
    aI,         \* index i of the scan of replaceCutRunsWithArcs
    aOut,       \* out: the moves emitted so far
    fPoints,    \* the cut run handed to fitArcsToPoints
    fI,         \* index i of the loop of fitArcsToPoints
    fResult,    \* result of fitArcsToPoints so far
    lPc,        \* letter pocket: "input", "rings" (the layer loop), "error" (thrown)
    lParams,    \* the validated request of the letter pocket
    lDepths,    \* computeDepthLevels of the request
    lRings,     \* the rings of all pocketable contours, in the order they are cut
    lOwner,     \* for each ring the index idxContour of its contour
    lCalls,     \* number of addLayerForPath calls made so far
    lLast,      \* the last move of the list before the latest call, if any
    lAdded,     \* the moves pushed by the latest round of the ring loop
    rPc,        \* rectangle pocket: "input" before, "done" after generateSpiralPocketRectangle
    rIn,        \* shape, shapeParams, stepover and toolRadius handed to generateSpiralPocketRectangle
    rPath,      \* the points generateSpiralPocketRectangle returned
    subs,       \* the form submissions so far: what was submitted and where its handler stands
    cachedLetterFont, \* TRUE once a font is cached
    embeddedFont,     \* window.LETTER_FONT_BASE64 is present and parses
    lastToolpath,     \* the submission whose toolpath lastToolpath holds, 0 for { moves: [] }
    gcodeOutput,      \* the submission whose G-code is displayed, 0 for none
    downloadOnclick,  \* the submission whose G-code downloadBtn.onclick downloads, 0 for none
    copyOnclick,      \* the submission whose G-code copyBtn.onclick copies, 0 for none
    buttonsDisabled,  \* downloadBtn.disabled and copyBtn.disabled
    errorMessage      \* the submission whose error text is shown, 0 for none

depthVars == <<dPc, dTotal, dStep, dLevels>>
tabVars == <<tPc, tIn, tCfg, tS, tZ, tPrevZ>>
genVars == <<gPc, params, depths, paths, gTabConfig, calls, gMoves, from, outMoves>>
offVars == <<oPc, oContour, oDist, oStepover, oOut, oBack, oRings>>
spiralVars == <<sPc, sIn, sPolar>>
arcVars == <<aPc, aIn, aMoves, aI, aOut, fPoints, fI, fResult>>
letterVars == <<lPc, lParams, lDepths, lRings, lOwner, lCalls, lLast, lAdded>>
rectVars == <<rPc, rIn, rPath>>
submitVars == <<subs, cachedLetterFont, embeddedFont, lastToolpath, gcodeOutput, downloadOnclick, copyOnclick, buttonsDisabled, errorMessage>>
vars == <<genVars, tabVars, depthVars, offVars, spiralVars, arcVars, letterVars, rectVars, submitVars>>
\* the variables of the other parts, which a step of one part leaves alone
nonGenVars == <<tabVars, depthVars, offVars, spiralVars, arcVars, letterVars, rectVars, submitVars>>
nonTabVars == <<genVars, depthVars, offVars, spiralVars, arcVars, letterVars, rectVars, submitVars>>
nonDepthVars == <<genVars, tabVars, offVars, spiralVars, arcVars, letterVars, rectVars, submitVars>>
nonOffVars == <<genVars, tabVars, depthVars, spiralVars, arcVars, letterVars, rectVars, submitVars>>
nonSpiralVars == <<genVars, tabVars, depthVars, offVars, arcVars, letterVars, rectVars, submitVars>>
nonArcVars == <<genVars, tabVars, depthVars, offVars, spiralVars, letterVars, rectVars, submitVars>>
nonLetterVars == <<genVars, tabVars, depthVars, offVars, spiralVars, arcVars, rectVars, submitVars>>
nonRectVars == <<genVars, tabVars, depthVars, offVars, spiralVars, arcVars, letterVars, submitVars>>
nonSubmitVars == <<genVars, tabVars, depthVars, offVars, spiralVars, arcVars, letterVars, rectVars>>

----------------------------------------------------------------------------
(* Arithmetic helpers: Math.max, Math.min, Math.abs, Math.ceil, Math.round *)

Max(a, b) == IF a >= b THEN a ELSE b
Min(a, b) == IF a <= b THEN a ELSE b
Abs(a) == IF a < 0 THEN -a ELSE a

\* floor(num / den) for den > 0, any sign of num
FloorDiv(num, den) == num \div den

\* Math.ceil(num / den) for den > 0
CeilDiv(num, den) == -((-num) \div den)

\* Math.round(num / den) for den > 0: JavaScript rounds half up, floor(x + 0.5)
RoundDiv(num, den) == (2 * num + den) \div (2 * den)

----------------------------------------------------------------------------
(* Depth Layering Scheduler: computeDepthLevels                            *)

\* one tenth of a millimetre in units: round1 is Math.round(v * 10) / 10
TenthMm == 10

\* round1 of the non-negative length num/den units, in units
round1(num, den) == RoundDiv(num, den * TenthMm) * TenthMm

\* mutant: Math.floor in place of Math.ceil
numLayersOf_floor(totalDepth, stepdown) == Max(1, FloorDiv(totalDepth, stepdown))

numLayersOf(totalDepth, stepdown) == Max(1, CeilDiv(totalDepth, stepdown))

\* depth of layer i of numLayers: the last layer takes -totalDepth, the others
\* -i * layerHeight; every one of them then goes through round1
depthOfLayer(i, numLayers, totalDepth) ==
    IF i = numLayers
        THEN -round1(totalDepth, 1)
        ELSE -round1(i * totalDepth, numLayers)

computeDepthLevels(totalDepth, stepdown) ==
    LET numLayers == numLayersOf(totalDepth, stepdown)
    IN  [i \in 1..numLayers |-> depthOfLayer(i, numLayers, totalDepth)]

\* largest total depth of the depth scheduler's inputs, in units
MaxTotalDepth == 36

\* total depths of realistic size next to the small ones: 1, 2.5, 2.54, 5 mm
DepthInputs == (1..MaxTotalDepth) \cup {100, 250, 254, 500}

DepthInit ==
    /\ dPc = "input"
    /\ dTotal \in DepthInputs
    /\ dStep \in {s \in DepthInputs : s <= dTotal}
    /\ dLevels = << >>

ComputeDepthLevels ==
    /\ dPc = "input"
    /\ dLevels' = computeDepthLevels(dTotal, dStep)
    /\ dPc' = "done"
    /\ UNCHANGED <<dTotal, dStep, nonDepthVars>>

----------------------------------------------------------------------------
(* Geometry primitives                                                      *)

\* largest r with r * r <= v, by Newton's iteration downward from x >= sqrt(v):
\* Math.sqrt on the grid
RECURSIVE IsqrtFrom(_, _)
IsqrtFrom(v, x) ==
    LET y == (x + v \div x) \div 2
    IN  IF y >= x THEN x ELSE IsqrtFrom(v, y)

\* Math.hypot(dx, dy); exact on axis-parallel segments
Hypot(dx, dy) ==
    IF dx = 0 THEN Abs(dy)
    ELSE IF dy = 0 THEN Abs(dx)
    ELSE IsqrtFrom(dx * dx + dy * dy, Abs(dx) + Abs(dy))

distance2D(a, b) == Hypot(a.x - b.x, a.y - b.y)

Pt(x, y) == [x |-> x, y |-> y]

\* a value that may be undefined / null in the source
None == [ok |-> FALSE, v |-> 0]
Some(v) == [ok |-> TRUE, v |-> v]

----------------------------------------------------------------------------
(* Tab Profile Modulator: buildTabConfig, getZForTabProfile,               *)
(* getTabBoundarySInSegment                                                *)

\* cumDist of buildTabConfig: cumulative[i] is the arc length from path[1] to
\* path[i] (the source's index i - 1)
RECURSIVE cumDistOf(_, _)
cumDistOf(path, k) ==
    IF k = 1 THEN <<0>>
    ELSE LET prev == cumDistOf(path, k - 1)
         IN  Append(prev, prev[k - 1] + distance2D(path[k - 1], path[k]))

\* the range of tab i (0-based) of n on a closed length: centre (i + 0.5) *
\* spacing, half a width to either side, clipped to [0, totalLengthClosed]
tabRange(i, n, totalLengthClosed, width) ==
    LET center == FloorDiv((2 * i + 1) * totalLengthClosed, 2 * n)
        halfWidth == FloorDiv(width, 2)
    IN  [start |-> Max(0, center - halfWidth),
         end |-> Min(totalLengthClosed, center + halfWidth)]

\* mutant: the tab count rounded down
tabCount_floor(totalLengthClosed, interval) ==
    Max(1, FloorDiv(totalLengthClosed, interval))

\* Math.round(totalLengthClosed / interval), at least 1
tabCount(totalLengthClosed, interval) ==
    Max(1, RoundDiv(totalLengthClosed, interval))

\* tabZ: the cut depth inside a tab, -(max(0, totalDepth - tabHeight))
tabZOf(totalDepth, tabHeight) == -Max(0, totalDepth - tabHeight)

buildTabConfig(path, interval, width, totalDepth, tabHeight) ==
    IF Len(path) < 2 \/ interval <= 0 \/ width <= 0 \/ tabHeight <= 0
    THEN None
    ELSE
    LET cumDist == cumDistOf(path, Len(path))
        totalLen == cumDist[Len(path)]
        closingLen == distance2D(path[Len(path)], path[1])
        totalLengthClosed == totalLen + closingLen
        n == tabCount(totalLengthClosed, interval)
        all == [i \in 1..n |-> tabRange(i - 1, n, totalLengthClosed, width)]
        ranges == SelectSeq(all, LAMBDA r : r.end > r.start)
    IN  IF totalLen <= 0 \/ Len(ranges) = 0
        THEN None
        ELSE Some([enabled |-> TRUE,
                   ranges |-> ranges,
                   totalLength |-> totalLen,
                   totalLengthClosed |-> totalLengthClosed,
                   cumulative |-> cumDist,
                   tabZ |-> tabZOf(totalDepth, tabHeight),
                   tabWidth |-> width])

\* the Z inside range r at arc length s: ramp up over rampLen, flat at tabZ,
\* ramp down over rampLen
zInTabRange(s, depthZ, r, tabZ, rampLenMm) ==
    LET rangeLen == r.end - r.start
        rampLen == Min(rampLenMm, FloorDiv(rangeLen, 2))
        rampUpEnd == r.start + rampLen
        rampDownStart == r.end - rampLen
    IN  IF rampLen <= 0 THEN tabZ
        ELSE IF s <= rampUpEnd
            THEN depthZ + RoundDiv((s - r.start) * (tabZ - depthZ), rampLen)
        ELSE IF s >= rampDownStart
            THEN tabZ + RoundDiv((s - rampDownStart) * (depthZ - tabZ), rampLen)
        ELSE tabZ

\* index of the first range that contains s, 0 when there is none
firstRangeAt(s, ranges) ==
    LET hits == {k \in 1..Len(ranges) : s >= ranges[k].start /\ s <= ranges[k].end}
    IN  IF hits = {} THEN 0 ELSE CHOOSE k \in hits : \A j \in hits : k <= j

getZForTabProfile(s, depthZ, tabConfig) ==
    IF ~tabConfig.ok THEN depthZ
    ELSE IF ~tabConfig.v.enabled \/ depthZ > tabConfig.v.tabZ THEN depthZ
    ELSE
    LET rampLenMm == FloorDiv(tabConfig.v.tabWidth, 4)
        k == firstRangeAt(s, tabConfig.v.ranges)
    IN  IF rampLenMm <= 0 \/ k = 0 THEN depthZ
        ELSE zInTabRange(s, depthZ, tabConfig.v.ranges[k], tabConfig.v.tabZ, rampLenMm)

\* a finite set of integers as an increasing sequence
RECURSIVE SortedSeq(_)
SortedSeq(S) ==
    IF S = {} THEN << >>
    ELSE LET m == CHOOSE x \in S : \A y \in S : x <= y
         IN  <<m>> \o SortedSeq(S \ {m})

\* the four profile corners of a range: start, ramp-up end, ramp-down start, end
rangeBounds(r, rampLenMm) ==
    LET rampLen == Min(rampLenMm, FloorDiv(r.end - r.start, 2))
    IN  IF rampLen <= 0 THEN {}
        ELSE {r.start, r.start + rampLen, r.end - rampLen, r.end}

getTabBoundarySInSegment(sStart, sEnd, tabConfig) ==
    LET rampLenMm == IF tabConfig.ok THEN FloorDiv(tabConfig.v.tabWidth, 4) ELSE 0
        inner == IF ~tabConfig.ok \/ rampLenMm <= 0 THEN {}
                 ELSE {b \in UNION {rangeBounds(tabConfig.v.ranges[k], rampLenMm) :
                                        k \in 1..Len(tabConfig.v.ranges)} :
                          b > sStart /\ b < sEnd}
    IN  SortedSeq({sStart, sEnd} \cup inner)

----------------------------------------------------------------------------
(* The tab modulator on its own: a tab configuration is built for the      *)
(* inside contour of a square and the cut walks once round the contour.    *)

\* the sharp-cornered closed rectangle of generateContourPathWithOffset
\* (inside contour) with half sides hw, hh
rectContour(hw, hh) ==
    <<Pt(-hw, -hh), Pt(hw, -hh), Pt(hw, hh), Pt(-hw, hh), Pt(-hw, -hh)>>

\* index of the first point of largest x
firstMaxX(path) ==
    CHOOSE i \in 1..Len(path) :
        /\ \A j \in 1..Len(path) : path[j].x <= path[i].x
        /\ \A j \in 1..(i - 1) : path[j].x < path[i].x

\* adjustRectContourStartToEdgeMid: start at the middle of the edge that
\* leaves the first right-most corner, then close on that middle
adjustRectContourStartToEdgeMid(path) ==
    IF Len(path) < 4 THEN path
    ELSE
    LET idx == firstMaxX(path)
        nextIdx == (idx % Len(path)) + 1
        mid == Pt(FloorDiv(path[idx].x + path[nextIdx].x, 2),
                  FloorDiv(path[idx].y + path[nextIdx].y, 2))
    IN  <<mid>> \o SubSeq(path, nextIdx, Len(path)) \o SubSeq(path, 1, idx) \o <<mid>>

\* half sides of the contours the tab walk runs on
TabHalfSides == {5, 6, 10}
TabIntervals == {10, 16, 20, 24, 40, 100}
TabWidths == {4, 8, 12, 24, 32}
TabTotalDepths == {80, 120}
TabHeights == {20, 40, 160}
\* number of depth layers of the tab walk's operation
TabLayers == 2

TabInit ==
    /\ tPc = "input"
    /\ \E h \in TabHalfSides, iv \in TabIntervals, w \in TabWidths,
          td \in TabTotalDepths, th \in TabHeights, layer \in 1..TabLayers :
          tIn = [path |-> adjustRectContourStartToEdgeMid(rectContour(h, h)),
                 interval |-> iv, width |-> w, totalDepth |-> td, tabHeight |-> th,
                 depthZ |-> -FloorDiv(layer * td, TabLayers)]
    /\ tCfg = None
    /\ tS = 0
    /\ tZ = 0
    /\ tPrevZ = 0

\* generateToolpath prepares the tabs of a contour operation
BuildTabConfig ==
    /\ tPc = "input"
    /\ tCfg' = buildTabConfig(tIn.path, tIn.interval, tIn.width, tIn.totalDepth, tIn.tabHeight)
    /\ tPc' = IF tCfg'.ok THEN "walk" ELSE "none"
    /\ tS' = 0
    /\ tZ' = getZForTabProfile(0, tIn.depthZ, tCfg')
    /\ tPrevZ' = tZ'
    /\ UNCHANGED <<tIn, nonTabVars>>

\* the cut advances one unit of arc length along the contour
TabWalk ==
    /\ tPc = "walk"
    /\ tS < tCfg.v.totalLengthClosed
    /\ tS' = tS + 1
    /\ tPrevZ' = tZ
    /\ tZ' = getZForTabProfile(tS + 1, tIn.depthZ, tCfg)
    /\ UNCHANGED <<tPc, tIn, tCfg, nonTabVars>>

----------------------------------------------------------------------------
(* Trigonometry on the grid.  Angles are integers in tenths of a degree;  *)
(* cosine and sine are read from a table by whole degrees, times 1000, so  *)
(* that the quarter turns are exact.                                        *)

twoPi == 3600

\* 1000 * cos(d degrees) for d = 0..90 (index d + 1)
CosTable == <<
    1000, 1000, 999, 999, 998, 996, 995, 993, 990, 988, 985, 982, 978,
    974, 970, 966, 961, 956, 951, 946, 940, 934, 927, 921, 914, 906,
    899, 891, 883, 875, 866, 857, 848, 839, 829, 819, 809, 799, 788,
    777, 766, 755, 743, 731, 719, 707, 695, 682, 669, 656, 643, 629,
    616, 602, 588, 574, 559, 545, 530, 515, 500, 485, 469, 454, 438,
    423, 407, 391, 375, 358, 342, 326, 309, 292, 276, 259, 242, 225,
    208, 191, 174, 156, 139, 122, 105, 87, 70, 52, 35, 17, 0>>

cosDeg(d) ==
    LET e == d % 360
    IN  IF e <= 90 THEN CosTable[e + 1]
        ELSE IF e <= 180 THEN -CosTable[180 - e + 1]
        ELSE IF e <= 270 THEN -CosTable[e - 180 + 1]
        ELSE CosTable[360 - e + 1]

sinDeg(d) == cosDeg(d + 270)

\* whole degrees of an angle in tenths of a degree, in 0..359
wholeDeg(angle) == RoundDiv(angle % twoPi, 10) % 360

\* the point at the given angle on the circle of radius R about (cx, cy)
circlePoint(cx, cy, R, angle) ==
    Pt(cx + RoundDiv(R * cosDeg(wholeDeg(angle)), 1000),
       cy + RoundDiv(R * sinDeg(wholeDeg(angle)), 1000))

\* an arc length on a circle of radius R as an angle: arcLength / R radians,
\* with pi taken as 355/113 (18000 * 113 / 355 = 40680 / 71 tenths of a degree);
\* an angle of 0 when the radius is 0 ("R > 1e-6 ? arcLength / R : 0")
arcToAngle(arcLength, R) ==
    IF R > 0 THEN RoundDiv(arcLength * 40680, 71 * R) ELSE 0

\* (Math.atan2(dy, dx) + twoPi) % twoPi: the direction of (dx, dy)
atan2Norm(dy, dx) ==
    IF dx = 0 /\ dy = 0 THEN 0
    ELSE IF dy = 0 THEN (IF dx > 0 THEN 0 ELSE 1800)
    ELSE IF dx = 0 THEN (IF dy > 0 THEN 900 ELSE 2700)
    ELSE 10 * (CHOOSE d \in 0..359 :
                 \A e \in 0..359 :
                    dx * cosDeg(d) + dy * sinDeg(d) >= dx * cosDeg(e) + dy * sinDeg(e))

----------------------------------------------------------------------------
(* Toolpath moves                                                           *)

Rapid(x, y, z) == [x |-> x, y |-> y, z |-> z, type |-> "rapid"]
Cut(x, y, z) == [x |-> x, y |-> y, z |-> z, type |-> "cut"]

\* moves[moves.length - 1]
LastMove(moves) == moves[Len(moves)]

\* "if (last && last.z < safeZ - 1e-6) push a rapid to safeZ above last"
\* mutant: the tool is never lifted to safe height before it is repositioned
retractToSafe_skip(moves, safeZ) == << >>
retractToSafe(moves, safeZ) ==
    IF Len(moves) > 0 /\ LastMove(moves).z < safeZ
    THEN <<Rapid(LastMove(moves).x, LastMove(moves).y, safeZ)>>
    ELSE << >>

\* path[i] with the source's 0-based index
At(path, i) == path[i + 1]

\* the point at arc length s on the segment p0 -> p1 that spans [sStart, sEnd]
lerpPoint(p0, p1, s, sStart, sEnd) ==
    IF sEnd - sStart > 0
    THEN Pt(p0.x + RoundDiv((s - sStart) * (p1.x - p0.x), sEnd - sStart),
            p0.y + RoundDiv((s - sStart) * (p1.y - p0.y), sEnd - sStart))
    ELSE Pt(p0.x, p0.y)

----------------------------------------------------------------------------
(* Entry & Ramp Planner: the helical descent loops of addLayerForPath      *)

\* degToRad(8), the largest angle of one helix move
maxAnglePerMove == 80

\* most segments a helical descent or laps a contour ramp may take in the
\* model; a loop that needs more does not terminate in the source
MaxLoopRounds == 12

\* the moves of one helix segment: numSteps steps of deltaAngleTotal / numSteps,
\* Z falling linearly by deltaZTotal
helixSegmentMoves(cx, cy, R, angle, currentZ, deltaAngleTotal, deltaZTotal) ==
    LET numSteps == Max(1, CeilDiv(deltaAngleTotal, maxAnglePerMove))
    IN  [k \in 1..numSteps |->
            LET pt == circlePoint(cx, cy, R, angle + RoundDiv(deltaAngleTotal * k, numSteps))
            IN  Cut(pt.x, pt.y, currentZ + RoundDiv(deltaZTotal * k, numSteps))]

\* deltaAngleTotal of one segment.  align = TRUE: the pocket helix, whose
\* last segment ends at the angle of the path's start; align = FALSE: the
\* plunge-outside helix of a contour.
helixDeltaAngle(align, R, cot, targetZ, targetAngleNorm, angle, currentZ, segmentDeltaZ, isLastSegment) ==
    LET angleNorm == angle % twoPi
        rawToTarget == (targetAngleNorm - angleNorm + twoPi) % twoPi
        angleToTarget == IF rawToTarget < 1 THEN twoPi ELSE rawToTarget
        minAngleForRamp == arcToAngle(Abs(targetZ - currentZ) * cot, R)
        arcAngle == arcToAngle(Abs(segmentDeltaZ) * cot, R)
    IN  IF align
        THEN IF isLastSegment
             THEN angleToTarget + twoPi * CeilDiv(Max(0, minAngleForRamp - angleToTarget), twoPi)
             ELSE arcAngle
        ELSE IF isLastSegment THEN Max(arcAngle, minAngleForRamp) ELSE arcAngle

\* "while (currentZ > targetZ - 1e-6) { ... }": the moves pushed, the final
\* angle, and hang = TRUE when the loop is still running after MaxLoopRounds
RECURSIVE helixDescent(_, _, _, _, _, _, _, _, _, _, _)
helixDescent(fuel, align, cx, cy, R, cot, targetZ, maxDepth, targetAngleNorm, angle, currentZ) ==
    IF currentZ < targetZ THEN [moves |-> << >>, angle |-> angle, hang |-> FALSE]
    ELSE IF fuel = 0 THEN [moves |-> << >>, angle |-> angle, hang |-> TRUE]
    ELSE
    LET remainingZ == currentZ - targetZ
        segmentDeltaZ == IF Abs(remainingZ) > maxDepth THEN -maxDepth ELSE -Abs(remainingZ)
        segmentZ == currentZ + segmentDeltaZ
        isLastSegment == segmentZ <= targetZ
        deltaAngleTotal == helixDeltaAngle(align, R, cot, targetZ, targetAngleNorm,
                                           angle, currentZ, segmentDeltaZ, isLastSegment)
        deltaZTotal == IF isLastSegment THEN targetZ - currentZ ELSE segmentDeltaZ
        seg == helixSegmentMoves(cx, cy, R, angle, currentZ, deltaAngleTotal, deltaZTotal)
        nextAngle == angle + deltaAngleTotal
        nextZ == IF isLastSegment THEN targetZ ELSE segmentZ
    IN  IF nextZ <= targetZ
        THEN [moves |-> seg, angle |-> nextAngle, hang |-> FALSE]
        ELSE LET rest == helixDescent(fuel - 1, align, cx, cy, R, cot, targetZ, maxDepth,
                                      targetAngleNorm, nextAngle, nextZ)
             IN  [moves |-> seg \o rest.moves, angle |-> rest.angle, hang |-> rest.hang]

\* the closing cut from the end of the helix to the path's start, when the
\* helix did not end there
helixToStart(cx, cy, R, angle, start, depthZ) ==
    IF distance2D(circlePoint(cx, cy, R, angle), start) > 0
    THEN <<Cut(start.x, start.y, depthZ)>>
    ELSE << >>

\* Math.max(1e-6, Math.min(toolRadius, isFinite(maxHelixRadius) ? maxHelixRadius : toolRadius));
\* the floor of 1e-6 is 0 on the grid
helixRadius(toolRadius, maxHelixRadius) ==
    Max(0, Min(toolRadius, IF maxHelixRadius.ok THEN maxHelixRadius.v ELSE toolRadius))

----------------------------------------------------------------------------
(* Entry & Ramp Planner: the linear ramp along a contour                    *)

\* "rampLoop: while (true) { for (i = 0; i < n; i++) ... }": walks the closed
\* path from segment i with dist already travelled, until requiredPathLength
\* is reached.  Returns the ramp moves, rampEndSeg and rampEndPoint; hang =
\* TRUE when the loop is still running after MaxLoopRounds laps.
RECURSIVE rampLoop(_, _, _, _, _, _, _)
rampLoop(fuel, path, i, dist, requiredPathLength, rampStartZ, depthZ) ==
    LET n == Len(path)
    IN  IF i = n
        THEN IF fuel = 0
             THEN [moves |-> << >>, rampEndSeg |-> 0, rampEndPoint |-> None, hang |-> TRUE]
             ELSE rampLoop(fuel - 1, path, 0, dist, requiredPathLength, rampStartZ, depthZ)
        ELSE
        LET a == At(path, i)
            b == At(path, (i + 1) % n)
            segLen == distance2D(a, b)
        IN  IF segLen <= 0
            THEN rampLoop(fuel, path, i + 1, dist, requiredPathLength, rampStartZ, depthZ)
            ELSE IF dist + segLen <= requiredPathLength
            THEN LET z == rampStartZ +
                          RoundDiv((depthZ - rampStartZ) * (dist + segLen), requiredPathLength)
                     rest == rampLoop(fuel, path, i + 1, dist + segLen,
                                      requiredPathLength, rampStartZ, depthZ)
                 IN  [rest EXCEPT !.moves = <<Cut(b.x, b.y, z)>> \o rest.moves]
            ELSE LET remaining == requiredPathLength - dist
                     r == Pt(a.x + RoundDiv(remaining * (b.x - a.x), segLen),
                             a.y + RoundDiv(remaining * (b.y - a.y), segLen))
                 IN  [moves |-> <<Cut(r.x, r.y, depthZ)>>,
                      rampEndSeg |-> (i + 1) % n,
                      rampEndPoint |-> Some(r),
                      hang |-> FALSE]

\* arc length of path[idx] where the walk ends on it: path[0] reached again
\* counts as the closed length
sAtEnd(idx, tabConfig) ==
    IF idx = 0 THEN tabConfig.v.totalLengthClosed ELSE At(tabConfig.v.cumulative, idx)

\* the cut moves along p0 -> p1 spanning [sStart, sEnd], split at the tab
\* boundaries in sList.  profiled = TRUE: Z from getZForTabProfile;
\* profiled = FALSE: Z held at depthZ.
tabSegmentMoves(sList, p0, p1, sStart, sEnd, depthZ, tabConfig, profiled) ==
    [k \in 1..Len(sList) |->
        LET pt == lerpPoint(p0, p1, sList[k], sStart, sEnd)
        IN  Cut(pt.x, pt.y,
                IF profiled THEN getZForTabProfile(sList[k], depthZ, tabConfig) ELSE depthZ)]

\* concatenation of f[1] \o ... \o f[k]
RECURSIVE Flatten(_, _)
Flatten(f, k) == IF k = 0 THEN << >> ELSE Flatten(f, k - 1) \o f[k]

\* last layer of a contour ramp with tabs: from the ramp's end round the
\* contour and back to the ramp's end
rampLastLayerWithTabs(path, rampEndSeg, rampEndPoint, depthZ, tabConfig) ==
    LET n == Len(path)
        cum == tabConfig.v.cumulative
        prevIdx == (rampEndSeg + n - 1) % n
        sRampEnd == At(cum, prevIdx) + distance2D(At(path, prevIdx), rampEndPoint)
        sEndFirst == sAtEnd(rampEndSeg, tabConfig)
        sListFirst == SelectSeq(getTabBoundarySInSegment(sRampEnd, sEndFirst, tabConfig),
                                LAMBDA s : s > sRampEnd)
        first == tabSegmentMoves(sListFirst, rampEndPoint, At(path, rampEndSeg),
                                 sRampEnd, sEndFirst, depthZ, tabConfig, FALSE)
        full == [k \in 1..(n - 1) |->
                    LET idx == (rampEndSeg + k) % n
                        nextIdx == (rampEndSeg + k + 1) % n
                        sStart == At(cum, idx)
                        sEnd == sAtEnd(nextIdx, tabConfig)
                    IN  tabSegmentMoves(getTabBoundarySInSegment(sStart, sEnd, tabConfig),
                                        At(path, idx), At(path, nextIdx),
                                        sStart, sEnd, depthZ, tabConfig, TRUE)]
        sListLast == SelectSeq(getTabBoundarySInSegment(At(cum, prevIdx), sRampEnd, tabConfig),
                               LAMBDA s : s < sRampEnd)
        last == tabSegmentMoves(sListLast, At(path, prevIdx), rampEndPoint,
                                At(cum, prevIdx), sRampEnd, depthZ, tabConfig, TRUE)
    IN  first \o Flatten(full, n - 1) \o last \o
        <<Cut(rampEndPoint.x, rampEndPoint.y, getZForTabProfile(sRampEnd, depthZ, tabConfig))>>

\* last layer of a contour ramp without an enabled tab configuration
rampLastLayerPlain(path, rampEndSeg, rampEndPoint, depthZ) ==
    LET n == Len(path)
    IN  [k \in 1..n |-> LET pt == At(path, (rampEndSeg + k - 1) % n)
                        IN  Cut(pt.x, pt.y, depthZ)]
        \o (IF rampEndSeg # 0
            THEN <<Cut(rampEndPoint.x, rampEndPoint.y, depthZ)>> ELSE << >>)

\* intermediate layer of a contour ramp: the rest of the path and back to path[0]
rampIntermediateLayer(path, rampEndSeg, depthZ) ==
    [k \in 1..(Len(path) - rampEndSeg) |->
        LET pt == At(path, rampEndSeg + k - 1) IN Cut(pt.x, pt.y, depthZ)]
    \o <<Cut(path[1].x, path[1].y, depthZ)>>

----------------------------------------------------------------------------
(* Entry & Ramp Planner: addLayerForPath                                    *)

\* centre of the bounding box of a path
bboxCenter(path) ==
    LET xs == {path[i].x : i \in 1..Len(path)}
        ys == {path[i].y : i \in 1..Len(path)}
        minX == CHOOSE v \in xs : \A w \in xs : v <= w
        maxX == CHOOSE v \in xs : \A w \in xs : v >= w
        minY == CHOOSE v \in ys : \A w \in ys : v <= w
        maxY == CHOOSE v \in ys : \A w \in ys : v >= w
    IN  Pt(FloorDiv(minX + maxX, 2), FloorDiv(minY + maxY, 2))

\* the plunge-outside entry point: 1.5 * toolDiameter from the path's start,
\* toward the centre for an inside contour and away from it otherwise; the
\* start itself when the start is the origin
entryStartOf(path, start, plungeOutside, entryInsideForInsideContour, toolDiameter) ==
    IF ~plungeOutside \/ (start.x = 0 /\ start.y = 0) THEN start
    ELSE
    LET c == bboxCenter(path)
        vx == IF entryInsideForInsideContour THEN c.x - start.x ELSE start.x - c.x
        vy == IF entryInsideForInsideContour THEN c.y - start.y ELSE start.y - c.y
        len == Hypot(vx, vy)
        dist == FloorDiv(toolDiameter * 3, 2)
    IN  IF len > 0
        THEN Pt(start.x + RoundDiv(vx * dist, len), start.y + RoundDiv(vy * dist, len))
        ELSE IF entryInsideForInsideContour THEN start
        ELSE Pt(start.x + dist, start.y)

\* Math.sign(v) || 1
signOr1(v) == IF v < 0 THEN -1 ELSE 1

\* addCurvedLeadIn: a quadratic Bezier of 12 cut moves from fromPoint to
\* startPoint, tangent to the first segment startPoint -> nextPoint; a
\* straight cut when there is no usable first segment
addCurvedLeadIn(fromPoint, startPoint, nextPoint, depth) ==
    LET vx == nextPoint.x - startPoint.x
        vy == nextPoint.y - startPoint.y
        segLen == Hypot(vx, vy)
        spanX == IF Abs(fromPoint.x - startPoint.x) # 0
                 THEN Abs(fromPoint.x - startPoint.x) ELSE FloorDiv(segLen, 2)
        spanY == IF Abs(fromPoint.y - startPoint.y) # 0
                 THEN Abs(fromPoint.y - startPoint.y) ELSE FloorDiv(segLen, 2)
        c == IF vx = 0 THEN Pt(startPoint.x, startPoint.y + signOr1(vy) * spanX)
             ELSE IF vy = 0 THEN Pt(startPoint.x + signOr1(vx) * spanY, startPoint.y)
             ELSE Pt(startPoint.x - FloorDiv(3 * vx, 2), startPoint.y - FloorDiv(3 * vy, 2))
    IN  IF segLen <= 0
        THEN IF fromPoint.x # startPoint.x \/ fromPoint.y # startPoint.y
             THEN <<Cut(startPoint.x, startPoint.y, depth)>> ELSE << >>
        ELSE [i \in 1..12 |->
                Cut(RoundDiv((12 - i) * (12 - i) * fromPoint.x + 2 * (12 - i) * i * c.x
                             + i * i * startPoint.x, 144),
                    RoundDiv((12 - i) * (12 - i) * fromPoint.y + 2 * (12 - i) * i * c.y
                             + i * i * startPoint.y, 144),
                    depth)]

\* "if (!pathAlreadyAtDepth) { ... }": the whole path at this layer's depth.
\* With a tab configuration the segments path[i] -> path[i+1] are split at the
\* tab boundaries and every point takes the Z of the tab profile.
pathAtDepth(path, depthZ, tabConfig, skipFirstPathPoint) ==
    LET startIdx == IF skipFirstPathPoint THEN 1 ELSE 0
        n == Len(path)
    IN  IF tabConfig.ok
        THEN Flatten([j \in 1..(n - 1 - startIdx) |->
                        LET i == startIdx + j - 1
                            sStart == At(tabConfig.v.cumulative, i)
                            sEnd == At(tabConfig.v.cumulative, i + 1)
                        IN  tabSegmentMoves(getTabBoundarySInSegment(sStart, sEnd, tabConfig),
                                            At(path, i), At(path, i + 1),
                                            sStart, sEnd, depthZ, tabConfig, TRUE)],
                     n - 1 - startIdx)
        ELSE [j \in 1..(n - startIdx) |->
                LET pt == At(path, startIdx + j - 1) IN Cut(pt.x, pt.y, depthZ)]

\* mutant: the drill without the feed move down to the stock surface
singlePointLayer_noSurfaceCut(moves, start, depthZ, safeZ, leadInAbove) ==
    retractToSafe(moves, safeZ)
    \o <<Rapid(start.x, start.y, safeZ)>>
    \o (IF safeZ > leadInAbove THEN <<Rapid(start.x, start.y, leadInAbove)>> ELSE << >>)
    \o <<Cut(start.x, start.y, depthZ)>>

\* path.length === 1: a drill at the single point
singlePointLayer(moves, start, depthZ, safeZ, leadInAbove) ==
    retractToSafe(moves, safeZ)
    \o <<Rapid(start.x, start.y, safeZ)>>
    \o (IF safeZ > leadInAbove THEN <<Rapid(start.x, start.y, leadInAbove)>> ELSE << >>)
    \o <<Cut(start.x, start.y, 0), Cut(start.x, start.y, depthZ)>>

\* mutant: the next path of a layer without the retract to safe height
nextPathLayer_noRetract(moves, path, depthZ, cp, entryMethod, safeZ, useHelixRamp, toolRadius, maxHelixRadius, helixCenterX, helixCenterY) ==
    LET start == path[1]
        leadInAbove == Max(0, cp.leadInAboveMm)
    IN  [moves |-> <<Rapid(start.x, start.y, safeZ)>>
                   \o (IF safeZ > leadInAbove
                       THEN <<Rapid(start.x, start.y, leadInAbove)>> ELSE << >>)
                   \o <<Cut(start.x, start.y, depthZ)>>
                   \o [i \in 1..Len(path) |-> Cut(path[i].x, path[i].y, depthZ)],
         hang |-> FALSE]

\* !isFirstPathAtDepth: retract, rapid to the next path, helix or plunge to
\* depthZ, then the whole path at depthZ
nextPathLayer(moves, path, depthZ, cp, entryMethod, safeZ, useHelixRamp, toolRadius, maxHelixRadius, helixCenterX, helixCenterY) ==
    LET start == path[1]
        leadInAbove == Max(0, cp.leadInAboveMm)
        useRampHere == /\ entryMethod = "ramp" /\ useHelixRamp /\ toolRadius > 0
                       /\ helixCenterX.ok /\ helixCenterY.ok
        cx == IF helixCenterX.ok THEN helixCenterX.v ELSE start.x
        cy == IF helixCenterY.ok THEN helixCenterY.v ELSE start.y
        R == helixRadius(toolRadius, maxHelixRadius)
        zStart == leadInAbove
        helix == helixDescent(MaxLoopRounds, TRUE, cx, cy, R, cp.rampCot, depthZ,
                              Abs(depthZ - zStart), atan2Norm(start.y - cy, start.x - cx),
                              0, zStart)
        entry == IF useRampHere
                 THEN <<Rapid(cx + R, cy, safeZ)>>
                      \o (IF safeZ > zStart THEN <<Rapid(cx + R, cy, zStart)>> ELSE << >>)
                      \o helix.moves
                      \o helixToStart(cx, cy, R, helix.angle, start, depthZ)
                 ELSE <<Rapid(start.x, start.y, safeZ)>>
                      \o (IF safeZ > leadInAbove
                          THEN <<Rapid(start.x, start.y, leadInAbove)>> ELSE << >>)
                      \o <<Cut(start.x, start.y, depthZ)>>
    IN  [moves |-> retractToSafe(moves, safeZ) \o entry
                   \o [i \in 1..Len(path) |-> Cut(path[i].x, path[i].y, depthZ)],
         hang |-> useRampHere /\ helix.hang]

\* mutant: a layer never continues from the previous one
continuingFromPreviousLayer_never(moves, depthZ) == FALSE

\* "last && last.z < -1e-6 && depthZ < last.z - 1e-6": the previous move ended
\* below the stock surface and this layer is deeper
continuingFromPreviousLayer(moves, depthZ) ==
    Len(moves) > 0 /\ LastMove(moves).z < 0 /\ depthZ < LastMove(moves).z

\* ramp entry, helix inside the pocket (useHelixRamp && toolRadius > 0)
rampHelixEntry(moves, path, depthZ, cp, safeZ, toolRadius, maxHelixRadius, helixCenterX, helixCenterY, entryStart, continuing) ==
    LET start == path[1]
        leadInAbove == Max(0, cp.leadInAboveMm)
        zStart == IF continuing THEN LastMove(moves).z ELSE 0
        R == helixRadius(toolRadius, maxHelixRadius)
        cx == IF helixCenterX.ok THEN helixCenterX.v ELSE entryStart.x
        cy == IF helixCenterY.ok THEN helixCenterY.v ELSE entryStart.y
        helixRampStartZ == IF continuing THEN zStart ELSE zStart + leadInAbove
        helix == helixDescent(MaxLoopRounds, TRUE, cx, cy, R, cp.rampCot, depthZ,
                              Abs(depthZ - zStart), atan2Norm(start.y - cy, start.x - cx),
                              0, helixRampStartZ)
    IN  [moves |-> (IF ~continuing
                    THEN <<Rapid(cx + R, cy, safeZ)>>
                         \o (IF safeZ > zStart + leadInAbove
                             THEN <<Rapid(cx + R, cy, zStart + leadInAbove)>> ELSE << >>)
                    ELSE <<Cut(cx + R, cy, zStart)>>)
                   \o helix.moves
                   \o helixToStart(cx, cy, R, helix.angle, start, depthZ),
         hang |-> helix.hang]

\* Math.max(0.5, Math.min(1.5, toolDiameter / 2)) in mm: radius of the small
\* plunge-outside helix
helixROutside(toolDiameter) == Max(50, Min(150, FloorDiv(toolDiameter, 2)))

\* ramp entry of a contour with plunge-outside: a small helix about entryStart
\* down to depthZ, then a straight cut to the path's start
rampOutsideEntry(moves, path, depthZ, cp, safeZ, entryStart, continuing) ==
    LET start == path[1]
        leadInAbove == Max(0, cp.leadInAboveMm)
        zStart == IF continuing THEN LastMove(moves).z ELSE 0
        R == helixROutside(cp.toolDiameter)
        cx == entryStart.x
        cy == entryStart.y
        helixRampStartZ == IF continuing THEN zStart ELSE zStart + leadInAbove
        helix == helixDescent(MaxLoopRounds, FALSE, cx, cy, R, cp.rampCot, depthZ,
                              Abs(depthZ - zStart), 0, 0, helixRampStartZ)
    IN  [moves |-> (IF ~continuing
                    THEN <<Rapid(cx + R, cy, safeZ)>>
                         \o (IF safeZ > zStart + leadInAbove
                             THEN <<Rapid(cx + R, cy, zStart + leadInAbove)>> ELSE << >>)
                    ELSE <<Cut(cx + R, cy, LastMove(moves).z)>>)
                   \o helix.moves
                   \o <<Cut(start.x, start.y, depthZ)>>,
         hang |-> helix.hang]

\* ramp entry along the contour: the ramp, then the contour at depth (with the
\* tab profile on the last layer only)
rampContourEntry(moves, path, depthZ, cp, safeZ, tabConfig, isLastLayer, continuing) ==
    LET start == path[1]
        leadInAbove == Max(0, cp.leadInAboveMm)
        zStart == IF continuing THEN LastMove(moves).z ELSE 0
        rampStartZ == IF continuing THEN zStart ELSE zStart + leadInAbove
        requiredPathLength == Abs(depthZ - rampStartZ) * cp.rampCot
        leadIn == IF ~continuing /\ safeZ > zStart + leadInAbove
                  THEN <<Rapid(start.x, start.y, zStart + leadInAbove)>> ELSE << >>
        ramp == rampLoop(MaxLoopRounds, path, 0, 0, requiredPathLength, rampStartZ, depthZ)
        after == IF ~ramp.rampEndPoint.ok THEN << >>
                 ELSE IF ~isLastLayer THEN rampIntermediateLayer(path, ramp.rampEndSeg, depthZ)
                 ELSE IF tabConfig.ok
                 THEN rampLastLayerWithTabs(path, ramp.rampEndSeg, ramp.rampEndPoint.v,
                                            depthZ, tabConfig)
                 ELSE rampLastLayerPlain(path, ramp.rampEndSeg, ramp.rampEndPoint.v, depthZ)
    IN  IF Len(path) < 2 \/ requiredPathLength <= 0
        THEN [moves |-> leadIn \o <<Cut(start.x, start.y, depthZ)>>, hang |-> FALSE]
        ELSE [moves |-> leadIn \o ramp.moves \o after, hang |-> ramp.hang]

\* plunge entry: vertical descent at entryStart, curved lead-in to the path's
\* start with plunge-outside
plungeEntry(moves, path, depthZ, cp, plungeOutside, safeZ, entryStart, continuing) ==
    LET leadInAbove == Max(0, cp.leadInAboveMm)
    IN  (IF ~continuing
         THEN (IF safeZ > leadInAbove
               THEN <<Rapid(entryStart.x, entryStart.y, leadInAbove)>> ELSE << >>)
              \o <<Cut(entryStart.x, entryStart.y, 0), Cut(entryStart.x, entryStart.y, depthZ)>>
         ELSE <<Cut(entryStart.x, entryStart.y, LastMove(moves).z),
                Cut(entryStart.x, entryStart.y, depthZ)>>)
        \o (IF plungeOutside THEN addCurvedLeadIn(entryStart, path[1], path[2], depthZ)
            ELSE << >>)

\* the first path of a depth layer: retract and rapid to the entry unless the
\* layer continues from the previous one, the entry, then the path at depth
firstPathLayer(moves, path, depthZ, cp, plungeOutside, entryMethod, safeZ, tabConfig, entryInsideForInsideContour, useHelixRamp, toolRadius, isLastLayer, maxHelixRadius, helixCenterX, helixCenterY) ==
    LET start == path[1]
        entryStart == entryStartOf(path, start, plungeOutside, entryInsideForInsideContour,
                                   cp.toolDiameter)
        continuing == continuingFromPreviousLayer(moves, depthZ)
        isRamp == entryMethod = "ramp"
        helixHere == isRamp /\ useHelixRamp /\ toolRadius > 0
        approach == IF continuing THEN << >>
                    ELSE retractToSafe(moves, safeZ)
                         \o (IF ~helixHere /\ ~(isRamp /\ plungeOutside)
                             THEN <<Rapid(entryStart.x, entryStart.y, safeZ)>> ELSE << >>)
        entry == IF helixHere
                 THEN rampHelixEntry(moves, path, depthZ, cp, safeZ, toolRadius, maxHelixRadius,
                                     helixCenterX, helixCenterY, entryStart, continuing)
                 ELSE IF isRamp /\ plungeOutside
                 THEN rampOutsideEntry(moves, path, depthZ, cp, safeZ, entryStart, continuing)
                 ELSE IF isRamp
                 THEN rampContourEntry(moves, path, depthZ, cp, safeZ, tabConfig, isLastLayer,
                                       continuing)
                 ELSE [moves |-> plungeEntry(moves, path, depthZ, cp, plungeOutside, safeZ,
                                             entryStart, continuing),
                       hang |-> FALSE]
        pathAlreadyAtDepth == \/ isRamp /\ ~isLastLayer /\ ~plungeOutside
                              \/ isRamp /\ ~helixHere /\ ~plungeOutside
        skipFirstPathPoint == isRamp /\ ~helixHere /\ plungeOutside
    IN  [moves |-> approach \o entry.moves
                   \o (IF pathAlreadyAtDepth \/ entry.hang THEN << >>
                       ELSE pathAtDepth(path, depthZ, tabConfig, skipFirstPathPoint)),
         hang |-> entry.hang]

\* addLayerForPath: the moves one call appends to `moves`; hang = TRUE when
\* the call does not return
addLayerForPath(moves, path, depthZ, cp, plungeOutside, entryMethod, isFirstPathAtDepth, safeZ, tabConfig, entryInsideForInsideContour, useHelixRamp, toolRadius, isLastLayer, maxHelixRadius, helixCenterX, helixCenterY) ==
    IF Len(path) = 0 THEN [moves |-> << >>, hang |-> FALSE]
    ELSE IF Len(path) = 1
    THEN [moves |-> singlePointLayer(moves, path[1], depthZ, safeZ, Max(0, cp.leadInAboveMm)),
          hang |-> FALSE]
    ELSE IF ~isFirstPathAtDepth
    THEN nextPathLayer(moves, path, depthZ, cp, entryMethod, safeZ, useHelixRamp, toolRadius,
                       maxHelixRadius, helixCenterX, helixCenterY)
    ELSE firstPathLayer(moves, path, depthZ, cp, plungeOutside, entryMethod, safeZ, tabConfig,
                        entryInsideForInsideContour, useHelixRamp, toolRadius, isLastLayer,
                        maxHelixRadius, helixCenterX, helixCenterY)

----------------------------------------------------------------------------
(* Offset Engine: polygonSignedArea2, contourOffset,                        *)
(* pocketRingsFromInnerContour                                              *)

RECURSIVE Gcd(_, _)
Gcd(a, b) == IF b = 0 THEN a ELSE Gcd(b, a % b)

RECURSIVE SumTo(_, _)
SumTo(f, k) == IF k = 0 THEN 0 ELSE SumTo(f, k - 1) + f[k]

\* twice the signed area: the sum of (x_j - x_i) * (y_j + y_i) over the edges
polygonSignedArea2(pts) ==
    LET n == Len(pts)
        term == [i \in 1..n |->
                    LET j == (i % n) + 1
                    IN  (pts[j].x - pts[i].x) * (pts[j].y + pts[i].y)]
    IN  IF n < 3 THEN 0 ELSE SumTo(term, n)

\* the contour without its closing point
openContour(contour) ==
    LET n == Len(contour)
    IN  IF n >= 2 /\ contour[n].x = contour[1].x /\ contour[n].y = contour[1].y
        THEN SubSeq(contour, 1, n - 1)
        ELSE contour

\* a point is kept unless it repeats the point kept before it
RECURSIVE dropRepeats(_, _)
dropRepeats(pts, k) ==
    IF k = 0 THEN << >>
    ELSE LET out == dropRepeats(pts, k - 1)
         IN  IF out = << >> \/ pts[k] # out[Len(out)] THEN Append(out, pts[k]) ELSE out

\* one pass of the zero-edge clean-up: a point between two zero-length edges
\* goes, a point next to one zero-length edge becomes the midpoint of that
\* edge, which on the grid is the point itself
cleanPass(pts) ==
    LET n == Len(pts)
        keep == [i \in 1..n |->
                    LET prev == pts[((i + n - 2) % n) + 1]
                        nextP == pts[(i % n) + 1]
                    IN  ~(prev = pts[i] /\ nextP = pts[i])]
    IN  SelectSeq([i \in 1..n |-> [p |-> pts[i], k |-> keep[i]]], LAMBDA e : e.k)

RECURSIVE cleanContour(_, _)
cleanContour(pts, pass) ==
    IF pass = 0 THEN Some(pts)
    ELSE LET next == [i \in 1..Len(cleanPass(pts)) |-> cleanPass(pts)[i].p]
         IN  IF Len(next) < 3 THEN None
             ELSE IF next = pts THEN Some(pts)
             ELSE cleanContour(next, pass - 1)

\* the direction of an edge in lowest terms and its length: (dx, dy) / len is
\* (ex, ey) / el
edgeDir(dx, dy) ==
    LET g == Gcd(Abs(dx), Abs(dy))
    IN  [ex |-> dx \div g, ey |-> dy \div g, el |-> Hypot(dx \div g, dy \div g)]

\* the vertex of the offset contour at curr: the intersection of the two
\* neighbouring edges, each moved by d along its normal sign * (-dy, dx) / len.
\* The fractions of the source are kept exact: A1 = a1 / l1, A2 = a2 / l2,
\* t * D1 = ((A2 - A1) x e2 / (e1 x e2)) * e1
offsetVertex(prev, curr, next, sign, d) ==
    LET e1 == edgeDir(curr.x - prev.x, curr.y - prev.y)
        e2 == edgeDir(next.x - curr.x, next.y - curr.y)
        a1x == prev.x * e1.el + d * sign * (-e1.ey)
        a1y == prev.y * e1.el + d * sign * e1.ex
        a2x == curr.x * e2.el + d * sign * (-e2.ey)
        a2y == curr.y * e2.el + d * sign * e2.ex
        cross == e1.ex * e2.ey - e1.ey * e2.ex
        wx == a2x * e1.el - a1x * e2.el
        wy == a2y * e1.el - a1y * e2.el
        tn == wx * e2.ey - wy * e2.ex
        den == e1.el * e2.el * cross
        sg == IF den < 0 THEN -1 ELSE 1
    IN  IF cross = 0
        THEN Pt(RoundDiv(a1x * e2.el + a2x * e1.el, 2 * e1.el * e2.el),
                RoundDiv(a1y * e2.el + a2y * e1.el, 2 * e1.el * e2.el))
        ELSE Pt(RoundDiv(sg * (a1x * e2.el * cross + tn * e1.ex), sg * den),
                RoundDiv(sg * (a1y * e2.el * cross + tn * e1.ey), sg * den))

\* contourOffset(contour, distance): null (None) or the closed offset contour
contourOffset(contour, distance) ==
    LET cleaned == cleanContour(dropRepeats(openContour(contour), Len(openContour(contour))), 3)
        pts == cleaned.v
        num == Len(pts)
        area2 == polygonSignedArea2(pts)
        sign == IF area2 >= 0 THEN 1 ELSE -1
        result == [i \in 1..num |->
                      offsetVertex(pts[((i + num - 2) % num) + 1], pts[i], pts[(i % num) + 1],
                                   sign, distance)]
        outArea2 == polygonSignedArea2(result)
    IN  IF Len(contour) < 3 THEN None
        ELSE IF distance = 0 THEN Some(contour)
        ELSE IF Len(dropRepeats(openContour(contour), Len(openContour(contour)))) < 3 THEN None
        ELSE IF ~cleaned.ok THEN None
        ELSE IF \E i \in 1..num : pts[i] = pts[(i % num) + 1] THEN None
        ELSE IF outArea2 = 0 THEN None
        ELSE IF (outArea2 > 0) # (area2 > 0) THEN None
        ELSE Some(Append(result, result[1]))

MAX_POCKET_RINGS == 300

\* n rounds of the loop of pocketRingsFromInnerContour from current, or fewer
\* when an offset fails (the break): the rings pushed and the next current.
\* The rounds are split in halves to keep the evaluation shallow.
RECURSIVE pocketRingRounds(_, _, _)
pocketRingRounds(current, stepover, n) ==
    IF n = 1 THEN [rings |-> <<current>>, next |-> contourOffset(current, stepover)]
    ELSE LET a == pocketRingRounds(current, stepover, n \div 2)
         IN  IF ~a.next.ok THEN a
             ELSE LET b == pocketRingRounds(a.next.v, stepover, n - n \div 2)
                  IN  [rings |-> a.rings \o b.rings, next |-> b.next]

\* pocketRingsFromInnerContour(innerContour, stepover)
pocketRingsFromInnerContour(innerContour, stepover) ==
    IF Len(innerContour) < 3 THEN << >>
    ELSE pocketRingRounds(innerContour, stepover, MAX_POCKET_RINGS).rings

----------------------------------------------------------------------------
(* Shapes and paths                                                         *)

\* segmentsForCircleRadius: the model samples every circle with the lower
\* clamp of the segment count, 4, so that all samples are quarter turns
segmentsForCircleRadius == 4

getShapeMinSize(shape, shapeParams) ==
    CASE shape = "circle" -> shapeParams.diameter
      [] shape = "square" -> shapeParams.size
      [] shape = "rectangle" -> Min(shapeParams.width, shapeParams.height)
      [] shape = "ellipse" -> Min(shapeParams.major, shapeParams.minor)
      [] shape = "patterned_holes" -> shapeParams.diameter
      [] OTHER -> 0

\* the closed polygon of an ellipse with half axes rx, ry (a circle: rx = ry)
ellipsePath(rx, ry) ==
    [k \in 1..(segmentsForCircleRadius + 1) |->
        Pt(RoundDiv(rx * cosDeg(90 * (k - 1)), 1000), RoundDiv(ry * sinDeg(90 * (k - 1)), 1000))]

\* generateContourPathWithOffset for an inside contour (contourInside = true):
\* the shape shrunk by the tool radius, empty when nothing is left.  Outside
\* contours (rounded corners) are not part of the model.
generateContourPathWithOffset(shape, shapeParams, toolRadius, contourInside) ==
    LET offset == IF contourInside THEN -toolRadius ELSE toolRadius
    IN  CASE shape = "circle" ->
                LET radius == FloorDiv(shapeParams.diameter, 2) + offset
                IN  IF radius <= 0 THEN << >> ELSE ellipsePath(radius, radius)
          [] shape = "ellipse" ->
                LET rx == FloorDiv(shapeParams.major, 2) + offset
                    ry == FloorDiv(shapeParams.minor, 2) + offset
                IN  IF rx <= 0 \/ ry <= 0 THEN << >> ELSE ellipsePath(rx, ry)
          [] shape = "square" ->
                LET half == FloorDiv(shapeParams.size, 2) + offset
                IN  IF half <= 0 THEN << >> ELSE rectContour(half, half)
          [] shape = "rectangle" ->
                LET hw == FloorDiv(shapeParams.width, 2) + offset
                    hh == FloorDiv(shapeParams.height, 2) + offset
                IN  IF hw <= 0 \/ hh <= 0 THEN << >> ELSE rectContour(hw, hh)
          [] OTHER -> << >>

\* the slot of a rectangle one of whose sides equals the tool diameter
rectangleSlot(shapeParams, toolDiameter) ==
    LET toolRadius == FloorDiv(toolDiameter, 2)
        w == shapeParams.width
        h == shapeParams.height
    IN  IF w = toolDiameter /\ h = toolDiameter THEN <<Pt(0, 0)>>
        ELSE IF w = toolDiameter
        THEN <<Pt(0, -Max(FloorDiv(h, 2) - toolRadius, 0)), Pt(0, Max(FloorDiv(h, 2) - toolRadius, 0))>>
        ELSE <<Pt(-Max(FloorDiv(w, 2) - toolRadius, 0), 0), Pt(Max(FloorDiv(w, 2) - toolRadius, 0), 0)>>

\* the contour path of generateToolpath: the offset path, replaced by a single
\* point (or a slot) when an inside contour equals the tool diameter, and for
\* squares and rectangles started at the middle of an edge
contourPathOf(shape, shapeParams, toolDiameter, contourType) ==
    LET toolRadius == FloorDiv(toolDiameter, 2)
        equalToToolDiameter == getShapeMinSize(shape, shapeParams) = toolDiameter
        base == generateContourPathWithOffset(shape, shapeParams, toolRadius, contourType = "inside")
        special == IF contourType = "inside" /\ equalToToolDiameter
                   THEN IF shape \in {"circle", "ellipse", "square"} THEN <<Pt(0, 0)>>
                        ELSE IF shape = "rectangle" THEN rectangleSlot(shapeParams, toolDiameter)
                        ELSE base
                   ELSE base
    IN  IF Len(special) >= 4 /\ shape \in {"square", "rectangle"}
        THEN adjustRectContourStartToEdgeMid(special)
        ELSE special

\* mutant: the spiral makes one turn too few
spiralTurns_short(radialSpan, stepover) == Max(1, CeilDiv(radialSpan, stepover) - 1)

\* turns of generateSpiralPocketCircle: Math.max(1, Math.ceil(radialSpan / stepover))
spiralTurns(radialSpan, stepover) == Max(1, CeilDiv(radialSpan, stepover))

\* the points of generateSpiralPocketCircle in polar form: r is the radius and
\* a the angle counted in segments (a / segments of a full turn)
spiralPocketCirclePolar(diameter, stepover, toolRadius) ==
    LET outerRingRadius == FloorDiv(diameter, 2) - toolRadius
        segments == segmentsForCircleRadius
        ring(r, first, start) == [k \in 1..(segments + 1 - first) |->
                                    [r |-> r, a |-> start + k - 1 + first]]
        innerR == toolRadius
        radialSpan == outerRingRadius - innerR
        turns == spiralTurns(radialSpan, stepover)
        steps == Max(segments * turns, 1)
    IN  IF outerRingRadius <= 0 THEN << >>
        ELSE IF outerRingRadius < toolRadius
        THEN <<[r |-> 0, a |-> 0]>>
             \o [i \in 1..segments |-> [r |-> FloorDiv(i * outerRingRadius, segments), a |-> i]]
             \o ring(outerRingRadius, 1, segments)
        ELSE IF radialSpan <= 0 THEN ring(outerRingRadius, 0, 0)
        ELSE ring(innerR, 0, 0)
             \o [i \in 1..steps |-> [r |-> innerR + FloorDiv(radialSpan * i, steps), a |-> i]]
             \o ring(outerRingRadius, 1, steps)

\* generateSpiralPocketCircle: ring at the tool radius, spiral outward, ring at
\* the boundary; from the centre when the pocket is smaller than two tools
generateSpiralPocketCircle(diameter, stepover, toolRadius) ==
    LET polar == spiralPocketCirclePolar(diameter, stepover, toolRadius)
    IN  [i \in 1..Len(polar) |->
            circlePoint(0, 0, polar[i].r, (twoPi \div segmentsForCircleRadius) * polar[i].a)]

\* the windings of generateSpiralPocketRectangle from the outside in, as the
\* while loop pushes them
RECURSIVE rectWindings(_, _, _, _, _)
rectWindings(L, R, B, T, stepover) ==
    IF ~(L < R /\ B < T) THEN << >>
    ELSE <<Pt(R, B), Pt(R, T), Pt(L, T)>>
         \o (IF L + stepover < R /\ B + stepover < T
             THEN <<Pt(L, B + stepover), Pt(L + stepover, B + stepover)>> ELSE << >>)
         \o rectWindings(L + stepover, R - stepover, B + stepover, T - stepover, stepover)

Reverse(q) == [i \in 1..Len(q) |-> q[Len(q) + 1 - i]]

\* generateSpiralPocketRectangle: the windings reversed (innermost first),
\* then the bottom edge and the left edge to close the outer rectangle
generateSpiralPocketRectangle(shape, shapeParams, stepover, toolRadius) ==
    LET hw == FloorDiv(IF shape = "square" THEN shapeParams.size ELSE shapeParams.width, 2)
              - toolRadius
        hh == FloorDiv(IF shape = "square" THEN shapeParams.size ELSE shapeParams.height, 2)
              - toolRadius
    IN  IF hw <= 0 \/ hh <= 0 THEN << >>
        ELSE Reverse(rectWindings(-hw, hw, -hh, hh, stepover))
             \o <<Pt(-hw, -hh), Pt(-hw, hh)>>

\* centres of the patterned holes, row by row
pocketCentersOf(shapeParams) ==
    LET countX == Max(1, shapeParams.countX)
        countY == Max(1, shapeParams.countY)
    IN  [k \in 1..(countX * countY) |->
            Pt(((k - 1) % countX) * shapeParams.spacingX,
               ((k - 1) \div countX) * shapeParams.spacingY)]

translatePath(path, c) == [i \in 1..Len(path) |-> Pt(path[i].x + c.x, path[i].y + c.y)]

\* pocketPaths of generateToolpath: a drill point per feature when the shape
\* equals the tool diameter, otherwise one spiral path per feature
\* generateFacingPaths: parallel strips across the face, alternating in
\* direction, from y = -hhEff in steps of the stepover while y <= hhEff; none
\* when the tool does not fit within the face
generateFacingPaths(shape, shapeParams, stepover, toolRadius, facingMode) ==
    LET hw == FloorDiv(IF shape = "square" THEN shapeParams.size ELSE shapeParams.width, 2)
        hh == FloorDiv(IF shape = "square" THEN shapeParams.size ELSE shapeParams.height, 2)
        isWithin == facingMode = "within"
        hwEff == IF isWithin THEN hw - toolRadius ELSE hw
        hhEff == IF isWithin THEN hh - toolRadius ELSE hh
    IN  IF hwEff <= 0 \/ hhEff <= 0 THEN << >>
        ELSE [k \in 1..(FloorDiv(2 * hhEff, stepover) + 1) |->
                LET y == -hhEff + (k - 1) * stepover
                IN  IF k % 2 = 0 THEN <<Pt(hwEff, y), Pt(-hwEff, y)>>
                    ELSE <<Pt(-hwEff, y), Pt(hwEff, y)>>]
pocketPathsOf(shape, shapeParams, cutParams) ==
    LET toolRadius == FloorDiv(cutParams.toolDiameter, 2)
        equalToToolDiameter == getShapeMinSize(shape, shapeParams) = cutParams.toolDiameter
        centers == pocketCentersOf(shapeParams)
    IN  IF equalToToolDiameter
        THEN CASE shape = "patterned_holes" -> [k \in 1..Len(centers) |-> <<centers[k]>>]
               [] shape \in {"circle", "ellipse", "square"} -> << <<Pt(0, 0)>> >>
               [] shape = "rectangle" -> << rectangleSlot(shapeParams, cutParams.toolDiameter) >>
               [] OTHER -> << >>
        ELSE CASE shape = "circle" ->
                    << generateSpiralPocketCircle(shapeParams.diameter, cutParams.stepover, toolRadius) >>
               [] shape \in {"square", "rectangle"} ->
                    << generateSpiralPocketRectangle(shape, shapeParams, cutParams.stepover, toolRadius) >>
               [] shape = "patterned_holes" ->
                    [k \in 1..Len(centers) |->
                        translatePath(generateSpiralPocketCircle(shapeParams.diameter,
                                                                 cutParams.stepover, toolRadius),
                                      centers[k])]
               [] OTHER -> << >>

\* maxHelixRadiusPocket: the inner clearance of the pocket
maxHelixRadiusPocketOf(shape, shapeParams, toolRadius) ==
    CASE shape \in {"circle", "patterned_holes"} ->
            Some(Max(0, FloorDiv(shapeParams.diameter, 2) - toolRadius))
      [] shape = "ellipse" ->
            Some(Max(0, Min(FloorDiv(shapeParams.major, 2) - toolRadius,
                            FloorDiv(shapeParams.minor, 2) - toolRadius)))
      [] shape = "square" ->
            Some(Max(0, FloorDiv(shapeParams.size, 2) - toolRadius))
      [] shape = "rectangle" ->
            Some(Max(0, Min(FloorDiv(shapeParams.width, 2) - toolRadius,
                            FloorDiv(shapeParams.height, 2) - toolRadius)))
      [] OTHER -> None

----------------------------------------------------------------------------
(* Origin transform                                                         *)

\* applyOriginTransform; facingBounds is None or the half width and half
\* height of the face
applyOriginTransform(mv, originParams, totalDepth, r, operation, contourType, facingBounds) ==
    LET xs == {mv[i].x : i \in 1..Len(mv)}
        ys == {mv[i].y : i \in 1..Len(mv)}
        minX == CHOOSE v \in xs : \A w \in xs : v <= w
        maxX == CHOOSE v \in xs : \A w \in xs : v >= w
        minY == CHOOSE v \in ys : \A w \in ys : v <= w
        maxY == CHOOSE v \in ys : \A w \in ys : v >= w
        o == originParams.xyOrigin
        contourOutside == operation = "contour" /\ contourType = "outside"
        isFacing == operation = "facing" /\ facingBounds.ok
        shiftX == IF isFacing
                  THEN (IF o = "center" THEN 0
                        ELSE IF o \in {"bottom_right", "top_right"} THEN -facingBounds.v.hw
                        ELSE facingBounds.v.hw)
                  ELSE IF o = "center" THEN -FloorDiv(minX + maxX, 2)
                  ELSE IF contourOutside
                  THEN (IF o \in {"bottom_right", "top_right"} THEN r - maxX ELSE -minX - r)
                  ELSE (IF o \in {"bottom_right", "top_right"} THEN -maxX - r ELSE -minX + r)
        shiftY == IF isFacing
                  THEN (IF o = "center" THEN 0
                        ELSE IF o \in {"top_left", "top_right"} THEN -facingBounds.v.hh
                        ELSE facingBounds.v.hh)
                  ELSE IF o = "center" THEN -FloorDiv(minY + maxY, 2)
                  ELSE IF contourOutside
                  THEN (IF o \in {"top_left", "top_right"} THEN r - maxY ELSE -minY - r)
                  ELSE (IF o \in {"top_left", "top_right"} THEN -maxY - r ELSE -minY + r)
        zShift == (IF originParams.zOrigin = "stock_bottom" THEN totalDepth ELSE 0)
                  + originParams.zOffset
    IN  IF Len(mv) = 0 THEN mv
        ELSE [i \in 1..Len(mv) |->
                [x |-> mv[i].x + shiftX, y |-> mv[i].y + shiftY,
                 z |-> mv[i].z + zShift, type |-> mv[i].type]]

----------------------------------------------------------------------------
(* Requests                                                                 *)

\* validateInputs: the checks that bear on the modelled fields
validateInputs(raw) ==
    LET cp == raw.cutParams
        sp == raw.shapeParams
        isLettersOutline == raw.shape = "letters" /\ raw.letterMode = "outline"
        isPocketOrInsideContour ==
            raw.operation = "pocket" \/ (raw.operation = "contour" /\ raw.contourType = "inside")
    IN  /\ isLettersOutline \/ cp.toolDiameter > 0
        /\ cp.totalDepth > 0
        /\ cp.stepdown > 0
        /\ isLettersOutline \/ cp.stepover > 0
        /\ cp.safeHeight > 0
        /\ cp.leadInAboveMm >= 0
        /\ cp.stepdown <= cp.totalDepth
        /\ isLettersOutline \/ cp.stepover <= cp.toolDiameter
        /\ cp.entryMethod = "ramp" => cp.rampCot > 0
        /\ (raw.operation = "contour" /\ raw.tabs.enabled) =>
              raw.tabs.interval > 0 /\ raw.tabs.width > 0 /\ raw.tabs.height > 0
        /\ CASE raw.shape = "circle" -> sp.diameter > 0
             [] raw.shape = "square" -> sp.size > 0
             [] raw.shape \in {"rectangle", "facing"} -> sp.width > 0 /\ sp.height > 0
             [] raw.shape = "ellipse" -> sp.major > 0 /\ sp.minor > 0
             [] raw.shape = "letters" -> TRUE
             [] raw.shape = "patterned_holes" ->
                    /\ sp.diameter > 0 /\ sp.spacingX > 0 /\ sp.spacingY > 0
                    /\ sp.countX >= 1 /\ sp.countY >= 1
             [] OTHER -> FALSE
        /\ (raw.shape # "letters" /\ isPocketOrInsideContour) =>
              getShapeMinSize(raw.shape, sp) >= cp.toolDiameter
        /\ (raw.operation = "facing" /\ raw.facingMode = "within") =>
              Min(IF raw.shape = "square" THEN sp.size ELSE sp.width,
                  IF raw.shape = "square" THEN sp.size ELSE sp.height) > cp.toolDiameter

NoShape == [diameter |-> 0, size |-> 0, width |-> 0, height |-> 0, major |-> 0, minor |-> 0,
            countX |-> 0, countY |-> 0, spacingX |-> 0, spacingY |-> 0, text |-> ""]

NoTabs == [enabled |-> FALSE, interval |-> 0, width |-> 0, height |-> 0]

\* tool diameters of the requests: 6 mm
ToolDiameters == {600}

\* the shapes of the requests, with the dimensions they are drawn with
ShapeInputs ==
    {[shape |-> "circle", shapeParams |-> [NoShape EXCEPT !.diameter = d]] : d \in {600, 1000, 2400}}
    \cup {[shape |-> "ellipse", shapeParams |-> [NoShape EXCEPT !.major = a, !.minor = 600]] :
            a \in {600, 1200}}
    \cup {[shape |-> "square", shapeParams |-> [NoShape EXCEPT !.size = d]] : d \in {600, 2000}}
    \cup {[shape |-> "rectangle", shapeParams |-> [NoShape EXCEPT !.width = 2400, !.height = h]] :
            h \in {600, 1600}}
    \cup {[shape |-> "patterned_holes",
           shapeParams |-> [NoShape EXCEPT !.diameter = d, !.countX = 2, !.countY = cy,
                                           !.spacingX = 3200, !.spacingY = 3200]] :
            d \in {600, 1000}, cy \in {1, 2}}

\* total depth and stepdown: one, two and three layers, and a depth of 0.1 mm
\* whose first level rounds to zero
DepthPairs == {<<500, 500>>, <<500, 250>>, <<600, 200>>, <<10, 3>>}

\* safe height and lead-in height: lead-in below, at and above the safe height
HeightPairs == {<<1000, 200>>, <<200, 200>>, <<100, 200>>}

\* 1 / tan(rampAngleMax): about 26.6 and 5.7 degrees
RampCots == {2, 10}

TabInputs ==
    {NoTabs}
    \cup {[enabled |-> TRUE, interval |-> iv, width |-> w, height |-> h] :
            iv \in {2800}, w \in {800, 3200}, h \in {100, 400, 700}}

CutInputs ==
    {[toolDiameter |-> td, totalDepth |-> dp[1], stepdown |-> dp[2], stepover |-> 300,
      safeHeight |-> hp[1], leadInAboveMm |-> hp[2], entryMethod |-> em, rampCot |-> rc] :
        td \in ToolDiameters, dp \in DepthPairs, hp \in HeightPairs,
        em \in {"plunge", "ramp"}, rc \in RampCots}

\* contours of the glyphs the font returns for the text: two closed squares
LetterPaths ==
    << <<Pt(0, 0), Pt(400, 0), Pt(400, 400), Pt(0, 400), Pt(0, 0)>>,
       <<Pt(600, 0), Pt(1000, 0), Pt(1000, 400), Pt(600, 400), Pt(600, 0)>> >>

\* tool diameters of a letter pocket: one that fits the letters, one that is
\* too large for them; the pocket is cut 1 mm deep in one layer with a
\* stepover of 0.2 mm
LetterPocketTools == {300, 400}

\* the contour of a glyph that is a slanted bar 10 mm long and 1 mm thick
\* along the direction (3, 4) / 5: its box is 6.8 x 8.6 mm, and an offset of
\* more than 0.5 mm inward turns it inside out
SlantedBar == <<Pt(0, 0), Pt(600, 800), Pt(520, 860), Pt(-80, 60), Pt(0, 0)>>

\* the texts: both squares, the first square, the bar before the first
\* square, the bar alone
LetterTexts == {"II", "I", "/I", "/"}

\* getLetterPathsFromFont: the contours the font returns for the text
lettersOf(text) ==
    CASE text = "II" -> LetterPaths
      [] text = "I" -> SubSeq(LetterPaths, 1, 1)
      [] text = "/I" -> <<SlantedBar>> \o SubSeq(LetterPaths, 1, 1)
      [] text = "/" -> <<SlantedBar>>

XYOrigins == {"center", "bottom_left", "bottom_right", "top_left", "top_right"}

\* the cuts with one depth layer of 5 mm, safe height 10 mm above a 2 mm
\* lead-in and the steeper ramp
PlainCutInputs ==
    {cp \in CutInputs : /\ cp.totalDepth = 500 /\ cp.stepdown = 500
                        /\ cp.safeHeight = 1000 /\ cp.rampCot = 2}

RawRequests ==
    {[shape |-> sh.shape, shapeParams |-> sh.shapeParams, operation |-> op,
      contourType |-> "inside", cutParams |-> cp,
      originParams |-> [xyOrigin |-> xo, zOrigin |-> "stock_top", zOffset |-> 0],
      plungeOutside |-> po, tabs |-> tb, letterMode |-> "outline"] :
        sh \in ShapeInputs, op \in {"pocket", "contour"}, cp \in CutInputs,
        xo \in {"center", "bottom_left"}, po \in BOOLEAN, tb \in TabInputs}
    \cup
    {[shape |-> sh.shape, shapeParams |-> sh.shapeParams, operation |-> op,
      contourType |-> ct, cutParams |-> cp,
      originParams |-> [xyOrigin |-> xo, zOrigin |-> "stock_top", zOffset |-> 0],
      plungeOutside |-> po, tabs |-> NoTabs, letterMode |-> "outline"] :
        sh \in ShapeInputs, op \in {"pocket", "contour"}, ct \in {"inside", "outside"},
        cp \in PlainCutInputs, xo \in XYOrigins, po \in BOOLEAN}
    \cup
    {[shape |-> "letters", shapeParams |-> [NoShape EXCEPT !.text = "II"], operation |-> "contour",
      contourType |-> "outside", cutParams |-> [cp EXCEPT !.toolDiameter = 50],
      originParams |-> [xyOrigin |-> "bottom_left", zOrigin |-> "stock_top", zOffset |-> 0],
      plungeOutside |-> po, tabs |-> NoTabs, letterMode |-> "outline"] :
        cp \in CutInputs, po \in BOOLEAN}

\* the letter pocket requests
RawLetterPocketRequests ==
    {[shape |-> "letters", shapeParams |-> [NoShape EXCEPT !.text = tx], operation |-> "contour",
      contourType |-> "outside",
      cutParams |-> [cp EXCEPT !.toolDiameter = td, !.totalDepth = 100, !.stepdown = 100,
                                !.stepover = 20],
      originParams |-> [xyOrigin |-> "bottom_left", zOrigin |-> "stock_top", zOffset |-> 0],
      plungeOutside |-> po, tabs |-> NoTabs, letterMode |-> "pocket"] :
        cp \in CutInputs, po \in BOOLEAN, td \in LetterPocketTools, tx \in LetterTexts \ {"II"}}

\* readInputsFromForm: plunge-outside is switched off for a pocket, and
\* patterned holes are always a pocket
fromForm(raw) ==
    /\ raw.operation = "pocket" => ~raw.plungeOutside
    /\ raw.shape = "patterned_holes" => raw.operation = "pocket"

\* a plain cut without tabs
plainCut(raw) == raw.cutParams \in PlainCutInputs /\ ~raw.tabs.enabled

\* requests that differ only in fields the code does not read are drawn once:
\* tabs of a pocket, the ramp angle of a plunge, the contour type of a pocket;
\* tabs are drawn with part of the shapes only, a letter pocket with one safe
\* height and ramp angle; outside contours are drawn for circle and ellipse,
\* with the plain cut; corner origins are drawn with the plain cut, and the
\* bottom left one with every cut of the shapes as large as the tool
drawnOnce(raw) ==
    /\ raw.operation = "pocket" => ~raw.tabs.enabled /\ raw.contourType = "inside"
    /\ raw.cutParams.entryMethod = "plunge" => raw.cutParams.rampCot = 2
    /\ raw.tabs.enabled => raw.shape \in {"square", "rectangle"}
                           /\ getShapeMinSize(raw.shape, raw.shapeParams) > raw.cutParams.toolDiameter
    /\ (raw.shape # "letters" /\ raw.contourType = "outside") =>
          raw.shape \in {"circle", "ellipse"} /\ plainCut(raw)
    /\ raw.originParams.xyOrigin # "center" =>
          \/ raw.shape # "letters" /\ plainCut(raw)
          \/ /\ raw.originParams.xyOrigin = "bottom_left"
             /\ \/ getShapeMinSize(raw.shape, raw.shapeParams) = raw.cutParams.toolDiameter
                \/ raw.shape = "letters"
    /\ (raw.shape = "letters" /\ raw.letterMode = "pocket") =>
          /\ raw.cutParams.safeHeight = 1000
          /\ raw.cutParams.rampCot = 2
          /\ raw.shapeParams.text # "I" =>
                raw.cutParams.entryMethod = "plunge" /\ ~raw.plungeOutside

Requests == {raw \in RawRequests : fromForm(raw) /\ drawnOnce(raw) /\ validateInputs(raw)}

\* the facing requests: a face of 24 x 12 mm, and one of 24 x 6 mm that the
\* 6 mm tool does not fit within; readInputsFromForm makes the operation of
\* the facing shape a facing, without plunge outside
RawFacingRequests ==
    {[shape |-> "facing", shapeParams |-> [NoShape EXCEPT !.width = 2400, !.height = h],
      operation |-> "facing", contourType |-> "inside", cutParams |-> cp,
      originParams |-> [xyOrigin |-> xo, zOrigin |-> "stock_top", zOffset |-> 0],
      plungeOutside |-> FALSE, tabs |-> NoTabs, letterMode |-> "outline", facingMode |-> fm] :
        h \in {600, 1200}, cp \in CutInputs, xo \in {"center", "bottom_left"},
        fm \in {"within", "full"}}

FacingRequests ==
    {raw \in RawFacingRequests :
        /\ validateInputs(raw)
        /\ raw.cutParams.entryMethod = "plunge" => raw.cutParams.rampCot = 2
        /\ raw.originParams.xyOrigin # "center" => plainCut(raw)}
LetterPocketRequests ==
    {raw \in RawLetterPocketRequests : fromForm(raw) /\ drawnOnce(raw) /\ validateInputs(raw)}

----------------------------------------------------------------------------
(* generateToolpath, step by step: the set-up, one step per addLayerForPath *)
(* call, and the final retract with the origin transform                    *)

toolRadiusOf(p) == FloorDiv(p.cutParams.toolDiameter, 2)

\* contourMinSize: the shorter side of the bounding box
contourMinSize(pts) ==
    LET xs == {pts[i].x : i \in 1..Len(pts)}
        ys == {pts[i].y : i \in 1..Len(pts)}
    IN  IF Len(pts) < 2 THEN 0
        ELSE Min((CHOOSE v \in xs : \A w \in xs : v >= w) - (CHOOSE v \in xs : \A w \in xs : v <= w),
                 (CHOOSE v \in ys : \A w \in ys : v >= w) - (CHOOSE v \in ys : \A w \in ys : v <= w))

\* letter pocket: the inner boundary of one letter contour, None when the
\* contour is skipped (smaller than 1.2 tool diameters) or cannot be offset;
\* a failed offset is tried again with 0.98 of the distance
letterInnerBoundary(path, toolDiameter, toolRadius) ==
    LET pts == openContour(path)
        offset == IF polygonSignedArea2(pts) < 0 THEN -toolRadius ELSE toolRadius
    IN  IF Len(pts) < 3 \/ 10 * contourMinSize(pts) < 12 * toolDiameter THEN None
        ELSE CHOOSE innerBoundary \in
                 {IF again.ok /\ Len(again.v) >= 3 THEN again ELSE None :
                     again \in {IF ~inner.ok /\ Abs(offset) > 0
                                THEN contourOffset(path, RoundDiv(offset * 98, 100)) ELSE inner :
                                    inner \in {contourOffset(path, offset)}}} : TRUE

\* mutant: one contour without inner boundary fails the whole text
pocketableOf_allOrNothing(letterPaths, toolDiameter, toolRadius) ==
    IF \E i \in 1..Len(letterPaths) :
          ~letterInnerBoundary(letterPaths[i], toolDiameter, toolRadius).ok
    THEN << >>
    ELSE [i \in 1..Len(letterPaths) |->
            letterInnerBoundary(letterPaths[i], toolDiameter, toolRadius).v]

\* pocketable: the inner boundaries of the letter contours that have one
pocketableOf(letterPaths, toolDiameter, toolRadius) ==
    CHOOSE pocketable \in
        {[i \in 1..Len(kept) |-> kept[i].v] :
            kept \in {SelectSeq([i \in 1..Len(letterPaths) |->
                                    letterInnerBoundary(letterPaths[i], toolDiameter, toolRadius)],
                                LAMBDA e : e.ok)}} : TRUE

\* the rings of every pocketable contour from the inside out, as the layer
\* loop of the letter pocket walks them
letterRingsOf(pocketable, stepover) ==
    [i \in 1..Len(pocketable) |->
        CHOOSE fromInsideOut \in {Reverse(rings) :
                                    rings \in {pocketRingsFromInnerContour(pocketable[i], stepover)}} : TRUE]

\* the rings of the letter pocket of request p, contour by contour
letterPocketRings(p) ==
    CHOOSE rings \in {letterRingsOf(pocketable, p.cutParams.stepover) :
                        pocketable \in {pocketableOf(lettersOf(p.shapeParams.text), p.cutParams.toolDiameter,
                                                     FloorDiv(p.cutParams.toolDiameter, 2))}} : TRUE

\* the paths one depth layer runs over
pathsOf(p) ==
    IF p.shape = "letters" THEN lettersOf(p.shapeParams.text)
    ELSE IF p.operation = "facing"
    THEN generateFacingPaths(IF p.shape = "facing" THEN "rectangle" ELSE p.shape, p.shapeParams,
                             p.cutParams.stepover, toolRadiusOf(p), p.facingMode)
    ELSE IF p.operation = "contour"
    THEN << contourPathOf(p.shape, p.shapeParams, p.cutParams.toolDiameter, p.contourType) >>
    ELSE pocketPathsOf(p.shape, p.shapeParams, p.cutParams)

\* idxContour of every ring, in the order the rings are cut
ringOwners(rings) == Flatten([i \in 1..Len(rings) |-> [k \in 1..Len(rings[i]) |-> i - 1]], Len(rings))

\* "if (contourPath.length < 2) return" skips every layer of such a contour
callsPerLayer(p, ps) ==
    IF p.shape # "letters" /\ p.operation = "contour"
    THEN (IF Len(ps[1]) < 2 THEN 0 ELSE 1)
    ELSE Len(ps)

tabConfigOf(p, ps) ==
    IF p.shape # "letters" /\ p.operation = "contour" /\ p.tabs.enabled
    THEN buildTabConfig(ps[1], p.tabs.interval, p.tabs.width, p.cutParams.totalDepth,
                        p.tabs.height)
    ELSE None

GenInit ==
    /\ gPc = "input"
    /\ params \in Requests
    /\ depths = << >>
    /\ paths = << >>
    /\ gTabConfig = None
    /\ calls = 0
    /\ gMoves = << >>
    /\ from = 0
    /\ outMoves = << >>

\* generateToolpath up to the layer loop: depth levels, paths, tabs
StartToolpath ==
    /\ gPc = "input"
    /\ depths' = computeDepthLevels(params.cutParams.totalDepth, params.cutParams.stepdown)
    /\ paths' = pathsOf(params)
    /\ gTabConfig' = tabConfigOf(params, paths')
    /\ gPc' = "layers"
    /\ UNCHANGED <<params, calls, gMoves, from, outMoves, nonGenVars>>

totalCalls == Len(depths) * callsPerLayer(params, paths)
depthIndex == calls \div callsPerLayer(params, paths)
pathIdx == calls % callsPerLayer(params, paths)

\* the step appends `added` or, when a loop of the call never ends, hangs
AppendLayer(res, before, after) ==
    /\ from' = Len(gMoves)
    /\ gMoves' = IF res.hang THEN gMoves ELSE gMoves \o before \o res.moves \o after
    /\ gPc' = IF res.hang THEN "hang" ELSE "layers"
    /\ calls' = calls + 1
    /\ UNCHANGED <<params, depths, paths, gTabConfig, outMoves, nonGenVars>>

\* one layer of a contour operation
AddContourLayer ==
    /\ gPc = "layers" /\ calls < totalCalls
    /\ params.shape # "letters" /\ params.operation = "contour"
    /\ AppendLayer(addLayerForPath(gMoves, paths[1], depths[depthIndex + 1], params.cutParams,
                                   params.plungeOutside, params.cutParams.entryMethod, TRUE,
                                   params.cutParams.safeHeight, gTabConfig,
                                   params.contourType = "inside", FALSE, 0,
                                   depthIndex = Len(depths) - 1, None, None, None),
                   << >>, << >>)

\* one pocket path of one layer; after the last of several patterned holes of
\* a layer but the last, a retract
AddPocketPath ==
    /\ gPc = "layers" /\ calls < totalCalls
    /\ params.shape # "letters" /\ params.operation = "pocket"
    /\ LET toolRadiusPocket == toolRadiusOf(params)
           center == IF params.shape = "patterned_holes"
                     THEN pocketCentersOf(params.shapeParams)[pathIdx + 1] ELSE Pt(0, 0)
           safeZ == params.cutParams.safeHeight
           res == addLayerForPath(gMoves, paths[pathIdx + 1], depths[depthIndex + 1],
                                  params.cutParams, params.plungeOutside /\ pathIdx = 0,
                                  params.cutParams.entryMethod, pathIdx = 0, safeZ, None,
                                  FALSE, TRUE, toolRadiusPocket, TRUE,
                                  maxHelixRadiusPocketOf(params.shape, params.shapeParams,
                                                         toolRadiusPocket),
                                  Some(center.x), Some(center.y))
           after == IF /\ params.shape = "patterned_holes" /\ Len(paths) > 1
                       /\ pathIdx = Len(paths) - 1 /\ depthIndex < Len(depths) - 1
                    THEN retractToSafe(gMoves \o res.moves, safeZ) ELSE << >>
       IN  AppendLayer(res, << >>, after)

\* one letter contour of one layer (outline mode), after a retract for every
\* contour but the first of the layer
AddLetterPath ==
    /\ gPc = "layers" /\ calls < totalCalls
    /\ params.shape = "letters"
    /\ LET safeZ == params.cutParams.safeHeight
           before == IF pathIdx > 0 THEN retractToSafe(gMoves, safeZ) ELSE << >>
       IN  AppendLayer(addLayerForPath(gMoves \o before, paths[pathIdx + 1],
                                       depths[depthIndex + 1], params.cutParams,
                                       params.plungeOutside /\ pathIdx = 0,
                                       params.cutParams.entryMethod, TRUE, safeZ, None,
                                       FALSE, FALSE, 0, TRUE, None, None, None),
                       before, << >>)

\* mutant: the toolpath ends where the last layer ended
\* facingBounds: half the width and height of the face of a facing operation
facingBoundsOf(p) ==
    IF p.shape = "facing" \/ p.operation = "facing"
    THEN Some([hw |-> FloorDiv(IF p.shape = "square" THEN p.shapeParams.size
                               ELSE p.shapeParams.width, 2),
               hh |-> FloorDiv(IF p.shape = "square" THEN p.shapeParams.size
                               ELSE p.shapeParams.height, 2)])
    ELSE None

\* one strip of one layer of a facing operation
AddFacingPath ==
    /\ gPc = "layers" /\ calls < totalCalls
    /\ params.operation = "facing"
    /\ LET toolRadiusFacing == FloorDiv(params.cutParams.toolDiameter, 2)
           hw == facingBoundsOf(params).v.hw - toolRadiusFacing
           hh == facingBoundsOf(params).v.hh - toolRadiusFacing
           maxHelixRadiusFacing == Max(0, Min(hw, hh))
       IN  AppendLayer(addLayerForPath(gMoves, paths[pathIdx + 1], depths[depthIndex + 1],
                                       params.cutParams, FALSE, params.cutParams.entryMethod,
                                       pathIdx = 0, params.cutParams.safeHeight, None, FALSE,
                                       TRUE, toolRadiusFacing, TRUE, Some(maxHelixRadiusFacing),
                                       Some(0), Some(0)),
                       << >>, << >>)
finalRetract_never(mv, p) == << >>

\* the final retract: for a pocket or a facing first a straight cut of up to 1.5 mm toward
\* the origin, then the rapid to safe height
finalRetract(mv, p) ==
    LET safeZ == p.cutParams.safeHeight
        last == LastMove(mv)
        dist == Hypot(-last.x, -last.y)
        step == Min(150, dist)
        endX == last.x + RoundDiv(-last.x * step, dist)
        endY == last.y + RoundDiv(-last.y * step, dist)
    IN  IF Len(mv) = 0 THEN << >>
        ELSE IF ~(last.z < safeZ) THEN << >>
        ELSE IF p.shape # "letters" /\ p.operation \in {"pocket", "facing"} /\ dist > 0
        THEN <<Cut(endX, endY, last.z), Rapid(endX, endY, safeZ)>>
        ELSE <<Rapid(last.x, last.y, safeZ)>>

\* generateToolpath after the layer loop: final retract and origin transform
FinishToolpath ==
    /\ gPc = "layers" /\ calls = totalCalls
    /\ from' = Len(gMoves)
    /\ gMoves' = gMoves \o finalRetract(gMoves, params)
    /\ outMoves' = IF params.shape = "letters"
                   THEN applyOriginTransform(gMoves', params.originParams,
                                             params.cutParams.totalDepth, 0, "pocket", "inside",
                                             None)
                   ELSE applyOriginTransform(gMoves', params.originParams,
                                             params.cutParams.totalDepth, toolRadiusOf(params),
                                             params.operation, params.contourType,
                                             facingBoundsOf(params))
    /\ gPc' = "done"
    /\ UNCHANGED <<params, depths, paths, gTabConfig, calls, nonGenVars>>

----------------------------------------------------------------------------
(* Pocket Path Planner: generateSpiralPocketCircle on its own inputs        *)

NoSpiral == [diameter |-> 0, stepover |-> 0, toolRadius |-> 0]
SpiralDiameters == {500, 600, 1000, 1200, 1300, 2000, 2400, 5000}
SpiralToolRadii == {150, 300}
SpiralStepovers == {50, 100, 120, 300, 450, 600, 1000}

SpiralInit ==
    /\ sPc = "input"
    /\ sIn \in [diameter : SpiralDiameters, stepover : SpiralStepovers, toolRadius : SpiralToolRadii]
    /\ sPolar = << >>

\* generateSpiralPocketCircle(shapeParams, stepover, toolRadius)
GenerateSpiralPocketCircle ==
    /\ sPc = "input"
    /\ sPolar' = spiralPocketCirclePolar(sIn.diameter, sIn.stepover, sIn.toolRadius)
    /\ sPc' = "done"
    /\ UNCHANGED <<sIn, nonSpiralVars>>

----------------------------------------------------------------------------
(* Offset Engine on its own inputs                                          *)

\* the contours the engine is driven with: a 10 x 6 mm rectangle, a 6 mm
\* square and a right triangle with sides 9, 12 and 15 mm, in either winding,
\* with and without the closing point
OffsetShapes ==
    { <<Pt(0, 0), Pt(1000, 0), Pt(1000, 600), Pt(0, 600)>>,
      <<Pt(0, 0), Pt(600, 0), Pt(600, 600), Pt(0, 600)>>,
      <<Pt(0, 0), Pt(900, 0), Pt(0, 1200)>> }
OffsetContours ==
    LET wound == OffsetShapes \cup { Reverse(s) : s \in OffsetShapes }
    IN  wound \cup { Append(s, s[1]) : s \in wound }
OffsetDistances == {10, 100, 290, 300, 310, 400, 500, 600, 900}
OffsetStepovers == {20, 30}

OffsetInit ==
    /\ oContour \in OffsetContours
    /\ \/ /\ oPc = "input"
          /\ oDist \in OffsetDistances \cup { -d : d \in OffsetDistances }
          /\ oStepover = 0
       \/ /\ oPc = "ringsInput"
          /\ oDist = 0
          /\ oStepover \in OffsetStepovers
    /\ oOut = None /\ oBack = None /\ oRings = << >>

\* contourOffset(contour, distance)
ContourOffset ==
    /\ oPc = "input"
    /\ oOut' = contourOffset(oContour, oDist)
    /\ oPc' = "offset"
    /\ UNCHANGED <<oContour, oDist, oStepover, oBack, oRings, nonOffVars>>

\* contourOffset(result, -distance) on a result that is a contour
OffsetBack ==
    /\ oPc = "offset" /\ oOut.ok
    /\ oBack' = contourOffset(oOut.v, -oDist)
    /\ oPc' = "back"
    /\ UNCHANGED <<oContour, oDist, oStepover, oOut, oRings, nonOffVars>>

\* pocketRingsFromInnerContour(contour, stepover)
PocketRings ==
    /\ oPc = "ringsInput"
    /\ oRings' = pocketRingsFromInnerContour(oContour, oStepover)
    /\ oPc' = "rings"
    /\ UNCHANGED <<oContour, oDist, oStepover, oOut, oBack, nonOffVars>>

----------------------------------------------------------------------------
(* Arc-Fitting Post-Processor: circleFromThreePoints,                       *)
(* pointToCircleDeviation, fitArcsToPoints, replaceCutRunsWithArcs          *)

\* 0.03 mm
ARC_FIT_TOLERANCE_MM == 3

Gcd3(a, b, c) == Gcd(Gcd(Abs(a), Abs(b)), Abs(c))

\* the circle through three points: the centre is (nx / d, ny / d), an exact
\* fraction in lowest terms with d > 0; None when the points are collinear
circleFromThreePoints(p1, p2, p3) ==
    LET d == 2 * (p1.x * (p2.y - p3.y) + p2.x * (p3.y - p1.y) + p3.x * (p1.y - p2.y))
        s1 == p1.x * p1.x + p1.y * p1.y
        s2 == p2.x * p2.x + p2.y * p2.y
        s3 == p3.x * p3.x + p3.y * p3.y
        nx == s1 * (p2.y - p3.y) + s2 * (p3.y - p1.y) + s3 * (p1.y - p2.y)
        ny == s1 * (p3.x - p2.x) + s2 * (p1.x - p3.x) + s3 * (p2.x - p1.x)
        g == Gcd3(nx, ny, d) * (IF d < 0 THEN -1 ELSE 1)
    IN  IF d = 0 THEN None
        ELSE Some([nx |-> nx \div g, ny |-> ny \div g, d |-> d \div g, on |-> p1])

\* squared distance of p from the centre of circle c, times c.d squared
centreDist2(p, c) == (p.x * c.d - c.nx) * (p.x * c.d - c.nx) + (p.y * c.d - c.ny) * (p.y * c.d - c.ny)

\* pointToCircleDeviation(p.x, p.y, cx, cy, r) > tol, decided exactly:
\* |sqrt(a) - sqrt(b)| > t  iff  a + b - t * t > 2 * sqrt(a * b)
pointToCircleDeviationExceeds(p, c, tol) ==
    LET a == centreDist2(p, c)
        b == centreDist2(c.on, c)
        t == tol * c.d
        lhs == a + b - t * t
    IN  lhs > 0 /\ lhs * lhs > 4 * a * b

\* points[k] of the source, whose indices start at 0
pointAt(points, k) == points[k + 1]

\* one round of the for loop over j: the circle through the first, the
\* middle and the last point of points[i..j) exists and every point between
\* the first and the last is within the tolerance of it
fitAccepts_noDeviationTest(points, i, j) ==
    circleFromThreePoints(pointAt(points, i), pointAt(points, (i + j) \div 2), pointAt(points, j - 1)).ok

fitAccepts(points, i, j) ==
    LET circle == circleFromThreePoints(pointAt(points, i), pointAt(points, (i + j) \div 2),
                                        pointAt(points, j - 1))
    IN  /\ circle.ok
        /\ \A k \in (i + 1)..(j - 2) :
              ~pointToCircleDeviationExceeds(pointAt(points, k), circle.v, ARC_FIT_TOLERANCE_MM)

\* bestJ: the for loop over j from i + 3 stops at the first j not accepted
RECURSIVE bestJFrom(_, _, _)
bestJFrom(points, i, j) ==
    IF j > Len(points) \/ ~fitAccepts(points, i, j) THEN j - 1
    ELSE bestJFrom(points, i, j + 1)

Line(p) == [type |-> "line", x |-> p.x, y |-> p.y, z |-> p.z]

\* cross of the arc for points[i..bestJ), times the square of the circle's
\* d: the cross product of first point minus centre and last point minus
\* centre
arcCross(points, i, bestJ) ==
    LET p0 == pointAt(points, i)
        pEnd == pointAt(points, bestJ - 1)
        circle == circleFromThreePoints(p0, pointAt(points, (i + bestJ) \div 2), pEnd).v
    IN  (p0.x * circle.d - circle.nx) * (pEnd.y * circle.d - circle.ny)
        - (p0.y * circle.d - circle.ny) * (pEnd.x * circle.d - circle.nx)

\* cross < 0 as the floating-point arithmetic can decide it: a cross that is
\* exactly zero (first and last point opposite on the circle) is computed as
\* a rounding residue of either sign
clockwiseOutcomes(cross) == IF cross = 0 THEN BOOLEAN ELSE {cross < 0}

\* the arc pushed for points[i..bestJ): it ends on the last point, its Z is
\* that of points[0], (i, j) is the centre minus points[i], as the exact
\* fraction (iNum / den, jNum / den)
arcSegment(points, i, bestJ, clockwise) ==
    LET p0 == pointAt(points, i)
        pEnd == pointAt(points, bestJ - 1)
        circle == circleFromThreePoints(p0, pointAt(points, (i + bestJ) \div 2), pEnd).v
    IN  [type |-> "arc", x |-> pEnd.x, y |-> pEnd.y, z |-> pointAt(points, 0).z,
         iNum |-> circle.nx - p0.x * circle.d, jNum |-> circle.ny - p0.y * circle.d,
         den |-> circle.d, clockwise |-> clockwise]

\* the outcomes of one round of the while loop of fitArcsToPoints at index
\* i: the segment pushed and the next i
fitRound(points, i) ==
    LET bestJ == bestJFrom(points, i, i + 3)
    IN  IF i >= Len(points) - 2 THEN {[seg |-> Line(pointAt(points, i)), next |-> i + 1]}
        ELSE IF bestJ > i + 2
        THEN {[seg |-> arcSegment(points, i, bestJ, cw), next |-> bestJ] :
                cw \in clockwiseOutcomes(arcCross(points, i, bestJ))}
        ELSE {[seg |-> Line(pointAt(points, i)), next |-> i + 1]}

\* the move replaceCutRunsWithArcs pushes for a segment
moveOfSegment(seg) ==
    IF seg.type = "arc" THEN seg ELSE Cut(seg.x, seg.y, seg.z)

\* the index after the run of cuts that starts at index i
RECURSIVE cutRunEnd(_, _)
cutRunEnd(moves, i) ==
    IF i < Len(moves) /\ pointAt(moves, i).type = "cut" THEN cutRunEnd(moves, i + 1) ELSE i

----------------------------------------------------------------------------
(* replaceCutRunsWithArcs on its own inputs, round by round                 *)

\* XY positions of the moves, in 0.01 mm: four points of the circle of
\* radius 0.1 mm about the origin, one 0.001 mm inside it, one well inside;
\* three of them lie on one line
ArcPositions == {Pt(10, 0), Pt(8, 6), Pt(7, 7), Pt(6, 8), Pt(0, 10), Pt(4, 4)}

\* most moves of a list
MaxArcMoves == 4

ArcTracks == UNION {[1..n -> ArcPositions] : n \in 1..MaxArcMoves}

\* the moves along a track: cuts at one depth; a rapid above the first point
\* and the cuts at one depth with a retract at the end; a rapid and cuts
\* that descend from point to point; a cut, a rapid and cuts
ArcMoveLists ==
    {[k \in 1..Len(t) |-> Cut(t[k].x, t[k].y, -5)] : t \in ArcTracks}
    \cup {<<Rapid(t[1].x, t[1].y, 10)>> \o [k \in 1..Len(t) |-> Cut(t[k].x, t[k].y, -5)]
          \o <<Rapid(t[Len(t)].x, t[Len(t)].y, 10)>> : t \in ArcTracks}
    \cup {<<Rapid(t[1].x, t[1].y, 10)>> \o [k \in 1..Len(t) |-> Cut(t[k].x, t[k].y, -k)] :
            t \in ArcTracks}
    \cup {[k \in 1..Len(t) |-> IF k = 2 THEN Rapid(t[k].x, t[k].y, 10) ELSE Cut(t[k].x, t[k].y, -5)] :
            t \in ArcTracks}

ArcInit ==
    /\ aPc = "scan" /\ aIn \in ArcMoveLists /\ aMoves = aIn /\ aI = 0 /\ aOut = << >>
    /\ fPoints = << >> /\ fI = 0 /\ fResult = << >>

\* a rapid (or any move that is not a cut) is pushed as it is
PassMove ==
    /\ aPc = "scan" /\ aI < Len(aMoves) /\ pointAt(aMoves, aI).type # "cut"
    /\ aOut' = Append(aOut, pointAt(aMoves, aI))
    /\ aI' = aI + 1
    /\ UNCHANGED <<aPc, aIn, aMoves, fPoints, fI, fResult, nonArcVars>>

\* the run of cuts from index i on is collected and handed to fitArcsToPoints
CollectCutRun ==
    /\ aPc = "scan" /\ aI < Len(aMoves) /\ pointAt(aMoves, aI).type = "cut"
    /\ aI' = cutRunEnd(aMoves, aI)
    /\ fPoints' = [k \in 1..(aI' - aI) |->
                     [x |-> aMoves[aI + k].x, y |-> aMoves[aI + k].y, z |-> aMoves[aI + k].z]]
    /\ fI' = 0 /\ fResult' = << >>
    /\ aPc' = "fit"
    /\ UNCHANGED <<aIn, aMoves, aOut, nonArcVars>>

\* fitArcsToPoints with fewer than three points: every point a line
FitShort ==
    /\ aPc = "fit" /\ Len(fPoints) < 3 /\ fI < Len(fPoints)
    /\ fResult' = [k \in 1..Len(fPoints) |-> Line(fPoints[k])]
    /\ fI' = Len(fPoints)
    /\ UNCHANGED <<aPc, aIn, aMoves, aI, aOut, fPoints, nonArcVars>>

\* one round of the while loop of fitArcsToPoints
FitRound ==
    /\ aPc = "fit" /\ Len(fPoints) >= 3 /\ fI < Len(fPoints)
    /\ \E round \in fitRound(fPoints, fI) :
          /\ fResult' = Append(fResult, round.seg)
          /\ fI' = round.next
    /\ UNCHANGED <<aPc, aIn, aMoves, aI, aOut, fPoints, nonArcVars>>

\* fitArcsToPoints returns; its segments are pushed as arcs and cuts
PushFitted ==
    /\ aPc = "fit" /\ fI >= Len(fPoints)
    /\ aOut' = aOut \o [k \in 1..Len(fResult) |-> moveOfSegment(fResult[k])]
    /\ aPc' = "scan"
    /\ UNCHANGED <<aIn, aMoves, aI, fPoints, fI, fResult, nonArcVars>>

\* the end of replaceCutRunsWithArcs: moves is replaced by out
ReplaceMoves ==
    /\ aPc = "scan" /\ aI >= Len(aMoves)
    /\ aMoves' = aOut
    /\ aPc' = "done"
    /\ UNCHANGED <<aIn, aI, aOut, fPoints, fI, fResult, nonArcVars>>

----------------------------------------------------------------------------
(* generateToolpath for letters in pocket mode: the set-up and the loop     *)
(* over depth levels, contours and rings, one step per addLayerForPath call. *)
(* addLayerForPath reads of the move list only its last move, so the list   *)
(* itself is not kept                                                       *)

LetterInit ==
    /\ lPc = "input" /\ lParams \in LetterPocketRequests
    /\ lDepths = << >> /\ lRings = << >> /\ lOwner = << >>
    /\ lCalls = 0 /\ lLast = << >> /\ lAdded = << >>

\* up to the layer loop: depth levels and the rings of the pocketable
\* contours; without a pocketable contour error.lettersToolTooBig is thrown
StartLetterPocket ==
    /\ lPc = "input"
    /\ lDepths' = computeDepthLevels(lParams.cutParams.totalDepth, lParams.cutParams.stepdown)
    /\ \E rings \in {letterPocketRings(lParams)} :
          /\ lRings' = Flatten(rings, Len(rings))
          /\ lOwner' = ringOwners(rings)
          /\ lPc' = IF Len(rings) = 0 THEN "error" ELSE "rings"
    /\ UNCHANGED <<lParams, lCalls, lLast, lAdded, nonLetterVars>>

\* one ring of one letter contour of one layer: a retract before the first
\* ring of every contour but the first, a retract after every ring
AddLetterRing ==
    /\ lPc = "rings" /\ lCalls < Len(lDepths) * Len(lRings)
    /\ LET safeZ == lParams.cutParams.safeHeight
           ringIdx == lCalls % Len(lRings)
           idxContour == lOwner[ringIdx + 1]
           firstRing == ringIdx = 0 \/ lOwner[ringIdx] # idxContour
           before == IF idxContour > 0 /\ firstRing THEN retractToSafe(lLast, safeZ) ELSE << >>
           res == addLayerForPath(lLast \o before, lRings[ringIdx + 1],
                                  lDepths[lCalls \div Len(lRings) + 1], lParams.cutParams,
                                  lParams.plungeOutside /\ idxContour = 0 /\ firstRing,
                                  lParams.cutParams.entryMethod, TRUE, safeZ, None, TRUE, TRUE,
                                  FloorDiv(lParams.cutParams.toolDiameter, 2), TRUE, None, None, None)
       IN  \E pushed \in {before \o res.moves \o retractToSafe(lLast \o before \o res.moves, safeZ)} :
              /\ lAdded' = IF res.hang THEN << >> ELSE pushed
              /\ lLast' = IF res.hang \/ pushed = << >> THEN lLast ELSE <<pushed[Len(pushed)]>>
              /\ lPc' = IF res.hang THEN "hang" ELSE "rings"
    /\ lCalls' = lCalls + 1
    /\ UNCHANGED <<lParams, lDepths, lRings, lOwner, nonLetterVars>>

----------------------------------------------------------------------------
(* Specifications                                                           *)

\* the variables a specification does not use stay at rest
----------------------------------------------------------------------------
(* Rectangle spiral pocket on its own inputs                                *)

\* squares and rectangles of 12 to 30 mm, wide and tall, for a 6 mm tool and
\* stepovers from a quarter of the tool diameter up to the tool diameter
RectSides == {1200, 1700, 2300, 2600}
RectHeights == {1200, 1700, 3000}
RectStepovers == {150, 300, 400, 500, 600}

RectShapes ==
    {[shape |-> "square", shapeParams |-> [NoShape EXCEPT !.size = d]] : d \in RectSides}
    \cup {[shape |-> "rectangle", shapeParams |-> [NoShape EXCEPT !.width = w, !.height = h]] :
            w \in RectSides, h \in RectHeights}

RectInit ==
    /\ rPc = "input"
    /\ rIn \in {[shape |-> sh.shape, shapeParams |-> sh.shapeParams, stepover |-> so,
                 toolRadius |-> FloorDiv(td, 2)] :
                   sh \in RectShapes, so \in RectStepovers, td \in ToolDiameters}
    /\ rPath = << >>

\* generateSpiralPocketRectangle(shape, shapeParams, stepover, toolRadius)
GenerateSpiralPocketRectangle ==
    /\ rPc = "input"
    /\ rPath' = generateSpiralPocketRectangle(rIn.shape, rIn.shapeParams, rIn.stepover,
                                              rIn.toolRadius)
    /\ rPc' = "done"
    /\ UNCHANGED <<rIn, nonRectVars>>
----------------------------------------------------------------------------
(* The form's submit handler and loadLetterFont                             *)

\* number of form submissions of a run
MaxSubmissions == 3

\* what a submission holds: a request validateInputs rejects, a valid request
\* of a built-in shape, or a valid request for letters
SubmissionKinds == {"invalid", "shape", "letters"}

\* setupUI: lastToolpath = { moves: [] }, nothing displayed, no handler set;
\* the page either carries the embedded font or has to load one
SubmitInit ==
    /\ subs = << >>
    /\ cachedLetterFont = FALSE
    /\ embeddedFont \in BOOLEAN
    /\ lastToolpath = 0 /\ gcodeOutput = 0 /\ downloadOnclick = 0 /\ copyOnclick = 0
    /\ buttonsDisabled = TRUE
    /\ errorMessage = 0

\* the handler of submission i from generateToolpath on: the toolpath, the
\* G-code and both button handlers are written, or the catch block shows the
\* error when generateToolpath throws
completeSubmission(i, throws, pc, shown) ==
    IF throws
    THEN /\ subs' = pc
         /\ errorMessage' = i
         /\ UNCHANGED <<lastToolpath, gcodeOutput, downloadOnclick, copyOnclick, buttonsDisabled>>
    ELSE /\ subs' = pc
         /\ errorMessage' = shown
         /\ lastToolpath' = i /\ gcodeOutput' = i
         /\ downloadOnclick' = i /\ copyOnclick' = i
         /\ buttonsDisabled' = FALSE

\* form "submit": the error text is cleared; an invalid request clears the
\* output and disables the buttons; letters wait for loadLetterFont unless
\* the font is cached or embedded (the await of a resolved promise resumes
\* before any other event is handled); otherwise the handler runs to its end
SubmitForm ==
    /\ Len(subs) < MaxSubmissions
    /\ \E kind \in SubmissionKinds, throws \in BOOLEAN :
         LET i == Len(subs) + 1
             sub(pc) == Append(subs, [kind |-> kind, throws |-> throws, pc |-> pc])
         IN  /\ kind = "invalid" => ~throws
             /\ IF kind = "invalid"
                THEN /\ subs' = sub("invalid")
                     /\ errorMessage' = i
                     /\ gcodeOutput' = 0
                     /\ buttonsDisabled' = TRUE
                     /\ lastToolpath' = 0
                     /\ UNCHANGED <<cachedLetterFont, downloadOnclick, copyOnclick>>
                ELSE IF kind = "letters" /\ ~cachedLetterFont /\ ~embeddedFont
                THEN /\ subs' = sub("await")
                     /\ errorMessage' = 0
                     /\ UNCHANGED <<cachedLetterFont, lastToolpath, gcodeOutput, downloadOnclick,
                                    copyOnclick, buttonsDisabled>>
                ELSE /\ cachedLetterFont' = (cachedLetterFont \/ kind = "letters")
                     /\ completeSubmission(i, throws, sub(IF throws THEN "threw" ELSE "done"), 0)
    /\ UNCHANGED <<embeddedFont, nonSubmitVars>>

\* opentype.load calls back with a font: it is cached and the waiting handler
\* resumes after its await
FontLoaded ==
    /\ \E i \in 1..Len(subs) :
         /\ subs[i].pc = "await"
         /\ cachedLetterFont' = TRUE
         /\ completeSubmission(i, subs[i].throws,
                               [subs EXCEPT ![i].pc = IF subs[i].throws THEN "threw" ELSE "done"],
                               errorMessage)
    /\ UNCHANGED <<embeddedFont, nonSubmitVars>>

\* every load of the chain failed: the handler shows the font error and returns
FontFailed ==
    /\ \E i \in 1..Len(subs) :
         /\ subs[i].pc = "await"
         /\ subs' = [subs EXCEPT ![i].pc = "fontError"]
         /\ errorMessage' = i
    /\ UNCHANGED <<cachedLetterFont, embeddedFont, lastToolpath, gcodeOutput, downloadOnclick,
                   copyOnclick, buttonsDisabled, nonSubmitVars>>
GenIdle ==
    /\ gPc = "idle" /\ params = NoShape /\ depths = << >> /\ paths = << >>
    /\ gTabConfig = None /\ calls = 0 /\ gMoves = << >> /\ from = 0 /\ outMoves = << >>
TabIdle ==
    /\ tPc = "idle" /\ tIn = NoTabs /\ tCfg = None /\ tS = 0 /\ tZ = 0 /\ tPrevZ = 0
DepthIdle ==
    /\ dPc = "idle" /\ dTotal = 0 /\ dStep = 0 /\ dLevels = << >>
OffsetIdle ==
    /\ oPc = "idle" /\ oContour = << >> /\ oDist = 0 /\ oStepover = 0
    /\ oOut = None /\ oBack = None /\ oRings = << >>
SpiralIdle ==
    /\ sPc = "idle" /\ sIn = NoSpiral /\ sPolar = << >>
LetterIdle ==
    /\ lPc = "idle" /\ lParams = NoShape /\ lDepths = << >> /\ lRings = << >> /\ lOwner = << >>
    /\ lCalls = 0 /\ lLast = << >> /\ lAdded = << >>
RectIdle ==
    /\ rPc = "idle" /\ rIn = NoShape /\ rPath = << >>
SubmitIdle ==
    /\ subs = << >> /\ cachedLetterFont = FALSE /\ embeddedFont = FALSE
    /\ lastToolpath = 0 /\ gcodeOutput = 0 /\ downloadOnclick = 0 /\ copyOnclick = 0
    /\ buttonsDisabled = TRUE /\ errorMessage = 0
ArcIdle ==
    /\ aPc = "idle" /\ aIn = << >> /\ aMoves = << >> /\ aI = 0 /\ aOut = << >>
    /\ fPoints = << >> /\ fI = 0 /\ fResult = << >>

\* generateToolpath on the drawn requests
Init == GenInit /\ TabIdle /\ DepthIdle /\ OffsetIdle /\ SpiralIdle /\ ArcIdle /\ LetterIdle /\ RectIdle /\ SubmitIdle
Next == StartToolpath \/ AddContourLayer \/ AddPocketPath \/ AddLetterPath \/ FinishToolpath
Spec == Init /\ [][Next]_vars

\* computeDepthLevels on its own inputs
DepthNext == ComputeDepthLevels
InitDepth == DepthInit /\ GenIdle /\ TabIdle /\ OffsetIdle /\ SpiralIdle /\ ArcIdle /\ LetterIdle /\ RectIdle /\ SubmitIdle
SpecDepth == InitDepth /\ [][DepthNext]_vars

\* buildTabConfig and the walk of getZForTabProfile along the contour
TabNext == BuildTabConfig \/ TabWalk
InitTab == TabInit /\ GenIdle /\ DepthIdle /\ OffsetIdle /\ SpiralIdle /\ ArcIdle /\ LetterIdle /\ RectIdle /\ SubmitIdle
SpecTab == InitTab /\ [][TabNext]_vars

\* contourOffset, its inverse call and pocketRingsFromInnerContour
OffsetNext == ContourOffset \/ OffsetBack \/ PocketRings
InitOffset == OffsetInit /\ GenIdle /\ TabIdle /\ DepthIdle /\ SpiralIdle /\ ArcIdle /\ LetterIdle /\ RectIdle /\ SubmitIdle
SpecOffset == InitOffset /\ [][OffsetNext]_vars

\* generateSpiralPocketCircle on its own inputs
SpiralNext == GenerateSpiralPocketCircle
InitSpiral == SpiralInit /\ GenIdle /\ TabIdle /\ DepthIdle /\ OffsetIdle /\ ArcIdle /\ LetterIdle /\ RectIdle /\ SubmitIdle
SpecSpiral == InitSpiral /\ [][SpiralNext]_vars

\* replaceCutRunsWithArcs on its own inputs
ArcNext == PassMove \/ CollectCutRun \/ FitShort \/ FitRound \/ PushFitted \/ ReplaceMoves
InitArc == ArcInit /\ GenIdle /\ TabIdle /\ DepthIdle /\ OffsetIdle /\ SpiralIdle /\ LetterIdle /\ RectIdle /\ SubmitIdle
SpecArc == InitArc /\ [][ArcNext]_vars

\* generateToolpath for letters in pocket mode
LetterNext == StartLetterPocket \/ AddLetterRing
\* generateToolpath for a facing operation
FacingInit ==
    /\ gPc = "input"
    /\ params \in FacingRequests
    /\ depths = << >>
    /\ paths = << >>
    /\ gTabConfig = None
    /\ calls = 0
    /\ gMoves = << >>
    /\ from = 0
    /\ outMoves = << >>
FacingNext == StartToolpath \/ AddFacingPath \/ FinishToolpath
InitFacing == FacingInit /\ TabIdle /\ DepthIdle /\ OffsetIdle /\ SpiralIdle /\ ArcIdle /\ LetterIdle /\ RectIdle /\ SubmitIdle
SpecFacing == InitFacing /\ [][FacingNext]_vars

\* generateSpiralPocketRectangle on its own inputs
RectNext == GenerateSpiralPocketRectangle
InitRect == RectInit /\ GenIdle /\ TabIdle /\ DepthIdle /\ OffsetIdle /\ SpiralIdle /\ ArcIdle /\ LetterIdle /\ SubmitIdle
SpecRect == InitRect /\ [][RectNext]_vars

\* the submit handler under overlapping submissions
SubmitNext == SubmitForm \/ FontLoaded \/ FontFailed
InitSubmit == SubmitInit /\ GenIdle /\ TabIdle /\ DepthIdle /\ OffsetIdle /\ SpiralIdle /\ ArcIdle /\ LetterIdle /\ RectIdle
SpecSubmit == InitSubmit /\ [][SubmitNext]_vars

InitLetter == LetterInit /\ GenIdle /\ TabIdle /\ DepthIdle /\ OffsetIdle /\ SpiralIdle /\ ArcIdle /\ RectIdle /\ SubmitIdle
SpecLetter == InitLetter /\ [][LetterNext]_vars

----------------------------------------------------------------------------
(* Depth Layering Scheduler: properties                                     *)

\* C1: for totalDepth > 0 and 0 < stepdown <= totalDepth, computeDepthLevels
\* returns exactly ceil(totalDepth / stepdown) levels: the least n with
\* n * stepdown >= totalDepth
C1_LevelCount ==
    dPc = "done" =>
        \E n \in 1..dTotal :
            /\ n * dStep >= dTotal
            /\ (n - 1) * dStep < dTotal
            /\ Len(dLevels) = n

\* C1 witness: 5 mm in steps of 2.5 mm gave the two levels -2.5 and -5.0
C1_Witness ==
    dPc = "done" /\ dTotal = 500 /\ dStep = 250 /\ dLevels = <<-250, -500>>

\* C2: the levels computeDepthLevels returns are strictly decreasing, each level
\* strictly deeper than the one before it, also after rounding to 0.1 mm
C2_StrictlyDecreasing ==
    dPc = "done" =>
        \A i \in 1..(Len(dLevels) - 1) : dLevels[i + 1] < dLevels[i]

\* C3: the last level computeDepthLevels returns equals -totalDepth exactly
C3_LastIsTotalDepth ==
    dPc = "done" => dLevels[Len(dLevels)] = -dTotal

----------------------------------------------------------------------------
(* Tab Profile Modulator: properties                                        *)

\* the closed length of the contour the tabs are laid on
tabClosedLength ==
    LET path == tIn.path
    IN  cumDistOf(path, Len(path))[Len(path)] + distance2D(path[Len(path)], path[1])

\* n is totalLength / interval rounded to the nearest integer (half up), at least 1
IsTabCount(n, totalLength, interval) ==
    \E n0 \in 0..totalLength :
        /\ 2 * n0 * interval - interval <= 2 * totalLength
        /\ 2 * totalLength < 2 * n0 * interval + interval
        /\ n = (IF n0 < 1 THEN 1 ELSE n0)

\* the ranges of the configuration are n tabs with centres spaced L / n apart,
\* the first at L / (2 n), each range the width about its centre clipped to
\* [0, L] (positions are on the grid: up to one unit of rounding)
TabRangesAsClaimed ==
    LET L == tabClosedLength
        rs == tCfg.v.ranges
        n == Len(rs)
        w == tIn.width
    IN  /\ tCfg.ok
        /\ tCfg.v.totalLengthClosed = L
        /\ IsTabCount(n, L, tIn.interval)
        /\ \A i \in 1..n :
              LET lo == (2 * i - 1) * L - n * w      \* 2 n (centre - width / 2)
                  hi == (2 * i - 1) * L + n * w      \* 2 n (centre + width / 2)
              IN  /\ rs[i].start = (IF lo <= 0 THEN 0 ELSE rs[i].start)
                  /\ lo > 0 => Abs(2 * n * rs[i].start - lo) <= 2 * n
                  /\ rs[i].end = (IF hi >= 2 * n * L THEN L ELSE rs[i].end)
                  /\ hi < 2 * n * L => Abs(2 * n * rs[i].end - hi) <= 2 * n

\* C7 as claimed: n = max(1, round(L / interval)) tabs with centres L / n apart,
\* each range [centre - width/2, centre + width/2] clipped to [0, L], and
\* tabZ = -(totalDepth - tabHeight), shallower than the full cut depth
C7_Original ==
    tPc # "input" =>
        /\ TabRangesAsClaimed
        /\ tCfg.v.tabZ = -(tIn.totalDepth - tIn.tabHeight)
        /\ tCfg.v.tabZ > -tIn.totalDepth

\* C7 amended: as claimed, but tabZ = -(totalDepth - tabHeight) only while the
\* tab height does not exceed the total depth; for a higher tab tabZ = 0
C7_TabConfig ==
    tPc # "input" =>
        /\ TabRangesAsClaimed
        /\ tIn.tabHeight <= tIn.totalDepth => tCfg.v.tabZ = -(tIn.totalDepth - tIn.tabHeight)
        /\ tIn.tabHeight > tIn.totalDepth => tCfg.v.tabZ = 0
        /\ tCfg.v.tabZ > -tIn.totalDepth

\* C7 witness: three tabs, the outer two unclipped, on a contour of length 80
\* with a tab higher than the total depth
C7_Witness ==
    /\ tPc = "walk"
    /\ tabClosedLength = 80 /\ tIn.interval = 24 /\ tIn.width = 12
    /\ Len(tCfg.v.ranges) = 3
    /\ tIn.tabHeight > tIn.totalDepth

\* the shortest ramp of the configuration: a quarter of the tab width, or half
\* a range that clipping made shorter
minRampLen ==
    LET rs == tCfg.v.ranges
        lens == {Min(FloorDiv(tIn.width, 4), FloorDiv(rs[k].end - rs[k].start, 2)) :
                    k \in 1..Len(rs)}
    IN  CHOOSE m \in lens : \A l \in lens : m <= l

\* C8: for every valid tab configuration, also with tabs wider than their
\* spacing, the Z of getZForTabProfile is continuous along the contour: from
\* one position to the next, one unit on, Z changes by no more than the slope
\* of a ramp allows (no vertical step at a tab boundary or between tabs)
C8_Continuous ==
    (tPc = "walk" /\ minRampLen > 0) =>
        Abs(tZ - tPrevZ) <= CeilDiv(Abs(tCfg.v.tabZ - tIn.depthZ), minRampLen) + 1

----------------------------------------------------------------------------
(* Toolpath generation: properties                                          *)

\* an addLayerForPath call has just returned
afterLayer == gPc = "layers" /\ calls >= 1

\* the moves the last step appended
added == SubSeq(gMoves, from + 1, Len(gMoves))

\* depth level and path index of the call that has just returned
lastDepthIndex == (calls - 1) \div callsPerLayer(params, paths)
lastPathIdx == (calls - 1) % callsPerLayer(params, paths)
layerDepth == depths[lastDepthIndex + 1]

\* a circle, ellipse or square whose smallest dimension equals the tool diameter
isDrillShape ==
    /\ params.shape \in {"circle", "ellipse", "square"}
    /\ getShapeMinSize(params.shape, params.shapeParams) = params.cutParams.toolDiameter

\* the moves of one drill layer: rapids at safe height above the centre, the
\* rapid to the lead-in height if withLeadIn, the cut to Z = 0, the cut to the
\* layer depth
IsDrillLayer(a, withLeadIn, safeZ, leadIn, depthZ) ==
    LET n == Len(a)
        k == IF withLeadIn THEN 3 ELSE 2
    IN  /\ n >= k + 1
        /\ \A j \in 1..(n - k) : a[j] = Rapid(0, 0, safeZ)
        /\ withLeadIn => a[n - 2] = Rapid(0, 0, leadIn)
        /\ a[n - 1] = Cut(0, 0, 0)
        /\ a[n] = Cut(0, 0, depthZ)

\* C9 as claimed: a pocket on a circle, ellipse or square whose smallest
\* dimension equals the tool diameter is a drill at the centre; every layer is,
\* in order, rapid at safe height, rapid to the lead-in height, cut to Z = 0,
\* cut to the layer depth, and no cut changes X or Y
C9_Original ==
    (afterLayer /\ params.operation = "pocket" /\ isDrillShape) =>
        IsDrillLayer(added, TRUE, params.cutParams.safeHeight,
                     params.cutParams.leadInAboveMm, layerDepth)

\* C9 amended: as claimed, but the rapid to the lead-in height is there only
\* when the safe height is above the lead-in height; and in the finished move
\* list no move at all changes X or Y
C9_DrillLayers ==
    /\ (afterLayer /\ params.operation = "pocket" /\ isDrillShape) =>
          IsDrillLayer(added, params.cutParams.safeHeight > params.cutParams.leadInAboveMm,
                       params.cutParams.safeHeight, params.cutParams.leadInAboveMm, layerDepth)
    /\ (gPc = "done" /\ params.operation = "pocket" /\ isDrillShape) =>
          /\ Len(outMoves) > 0
          /\ \A j \in 1..Len(outMoves) :
                outMoves[j].x = outMoves[1].x /\ outMoves[j].y = outMoves[1].y

\* C9 witness: the second layer of an ellipse drilled with the lead-in rapid
C9_Witness ==
    /\ afterLayer /\ params.operation = "pocket" /\ isDrillShape
    /\ params.shape = "ellipse" /\ calls = 2
    /\ params.cutParams.safeHeight > params.cutParams.leadInAboveMm
    /\ Len(added) = 5 /\ gMoves[Len(gMoves)].z = depths[2]

\* C10: an inside contour on a circle, ellipse or square equal to the tool
\* diameter is a single-point drill: the finished move list is not empty and
\* has, for every layer, a cut at the centre that reaches the layer's depth
C10_DrillContour ==
    (gPc = "done" /\ params.operation = "contour" /\ params.contourType = "inside"
     /\ isDrillShape /\ params.originParams.xyOrigin = "center") =>
        /\ Len(outMoves) > 0
        /\ \A d \in 1..Len(depths) :
              \E j \in 1..Len(outMoves) : outMoves[j] = Cut(0, 0, depths[d])

\* the last call was for the first path of its layer, the move before it ended
\* below `ceiling`, and the layer is deeper than that move
continuesBelow(ceiling) ==
    /\ afterLayer /\ lastPathIdx = 0 /\ from >= 1
    /\ gMoves[from].z < ceiling /\ layerDepth < gMoves[from].z

\* the call appended cuts only, none at safe height, and the first of them
\* starts the descent from the Z of the move before
descendsWithoutRetract ==
    /\ Len(added) >= 1
    /\ \A j \in 1..Len(added) :
          added[j].type = "cut" /\ added[j].z < params.cutParams.safeHeight
    /\ added[1].z <= gMoves[from].z /\ added[1].z >= layerDepth

firstCutIdx ==
    CHOOSE k \in 1..Len(added) :
        added[k].type = "cut" /\ \A j \in 1..(k - 1) : added[j].type # "cut"

\* C5: with several independent paths at one depth level (patterned holes,
\* letter contours), between the last cut of path k and the first descent of
\* path k+1 every move that changes X or Y is a rapid at safe height
C5_RapidsBetweenPaths ==
    (afterLayer /\ lastPathIdx > 0) =>
        /\ \E k \in 1..Len(added) : added[k].type = "cut"
        /\ \A j \in 1..(firstCutIdx - 1) :
              LET prev == IF j = 1 THEN gMoves[from] ELSE added[j - 1]
              IN  (added[j].x # prev.x \/ added[j].y # prev.y) =>
                      /\ added[j].type = "rapid"
                      /\ added[j].z = params.cutParams.safeHeight
                      /\ prev.z = params.cutParams.safeHeight

\* C5 witness: the second of several patterned holes, a spiral path, reached
\* from the first by a rapid at safe height after a retract
C5_Witness ==
    /\ afterLayer /\ lastPathIdx = 1 /\ params.shape = "patterned_holes"
    /\ Len(paths[2]) >= 2
    /\ gMoves[from].z < 0
    /\ added[1] = Rapid(gMoves[from].x, gMoves[from].y, params.cutParams.safeHeight)
    /\ added[2].type = "rapid" /\ added[2].x # added[1].x

\* the last call was a layer of a contour with tabs
afterTabLayer ==
    /\ afterLayer /\ params.shape # "letters" /\ params.operation = "contour"
    /\ gTabConfig.ok

\* index in `added` of the first move at the layer's depth
firstAtDepth ==
    CHOOSE k \in 1..Len(added) :
        added[k].z = layerDepth /\ \A j \in 1..(k - 1) : added[j].z # layerDepth

\* once the layer's depth is reached, every move is a cut at that depth
allAtLayerDepth ==
    /\ \E k \in 1..Len(added) : added[k].z = layerDepth
    /\ \A j \in firstAtDepth..Len(added) :
          added[j].type = "cut" /\ added[j].z = layerDepth

isIntermediateLayer == lastDepthIndex < Len(depths) - 1

\* the point of the contour at arc length s
contourPointAt(s) ==
    LET path == paths[1]
        cum == gTabConfig.v.cumulative
        segs == {i \in 1..(Len(path) - 1) : cum[i] <= s /\ s <= cum[i + 1] /\ cum[i] < cum[i + 1]}
        i == CHOOSE k \in segs : \A l \in segs : k <= l
    IN  lerpPoint(path[i], path[i + 1], s, cum[i], cum[i + 1])

\* point c lies on the axis-parallel stretch from p to q
onStretch(p, q, c) ==
    \/ p.x = q.x /\ c.x = p.x /\ Min(p.y, q.y) <= c.y /\ c.y <= Max(p.y, q.y)
    \/ p.y = q.y /\ c.y = p.y /\ Min(p.x, q.x) <= c.x /\ c.x <= Max(p.x, q.x)

\* a cut of the last call runs at the layer's depth over the middle of tab r
cutsThroughTab(r) ==
    LET c == contourPointAt(FloorDiv(r.start + r.end, 2))
    IN  \E j \in 1..Len(added) :
            LET prev == IF j = 1 THEN gMoves[from] ELSE added[j - 1]
            IN  /\ j = 1 => from >= 1
                /\ added[j].type = "cut"
                /\ prev.z = layerDepth /\ added[j].z = layerDepth
                /\ onStretch(prev, added[j], c)

\* on the last depth layer the cuts inside the tab ranges are raised: none runs
\* at full depth over the middle of a tab
\* a cut of the last call passes over the middle of tab r with both of its
\* ends below the top of the tab
cutsBelowTabTop(r) ==
    LET c == contourPointAt(FloorDiv(r.start + r.end, 2))
    IN  \E j \in 1..Len(added) :
            LET prev == IF j = 1 THEN gMoves[from] ELSE added[j - 1]
            IN  /\ j = 1 => from >= 1
                /\ added[j].type = "cut"
                /\ prev.z < gTabConfig.v.tabZ /\ added[j].z < gTabConfig.v.tabZ
                /\ onStretch(prev, added[j], c)
finalPassHonoursTabs ==
    (afterTabLayer /\ ~isIntermediateLayer /\ layerDepth < gTabConfig.v.tabZ) =>
        \A k \in 1..Len(gTabConfig.v.ranges) : ~cutsThroughTab(gTabConfig.v.ranges[k])

\* on every intermediate layer the tabs are ignored: every cut of the contour
\* is at the layer's depth
intermediatePassesIgnoreTabs ==
    (afterTabLayer /\ isIntermediateLayer) => allAtLayerDepth

\* C6: in a contour operation with tabs the tab Z-profile is applied only on
\* the final pass: on the last depth layer the cuts inside tab ranges are raised
\* to the tab profile, and on every intermediate layer the tabs are ignored and
\* every cut of the contour is at the layer's depth, with plunge and ramp entry
C6_TabsOnFinalPassOnly == finalPassHonoursTabs /\ intermediatePassesIgnoreTabs

----------------------------------------------------------------------------
(* Offset Engine: properties                                                *)

\* the area enclosed by a contour
contourArea2(c) == Abs(polygonSignedArea2(openContour(c)))

\* p lies in the convex polygon poly, its border included
inConvex(p, poly) ==
    LET n == Len(poly)
        side == [i \in 1..n |->
                    LET a == poly[i]
                        b == poly[(i % n) + 1]
                    IN  (b.x - a.x) * (p.y - a.y) - (b.y - a.y) * (p.x - a.x)]
    IN  (\A i \in 1..n : side[i] >= 0) \/ (\A i \in 1..n : side[i] <= 0)

\* every vertex of contour a lies in the convex contour b
liesInside(a, b) == \A i \in 1..Len(a) : inConvex(a[i], openContour(b))

vertexSet(c) == { c[i] : i \in 1..Len(c) }

contourPerimeter(c) ==
    LET pts == openContour(c)
        n == Len(pts)
    IN  SumTo([i \in 1..n |-> distance2D(pts[i], pts[(i % n) + 1])], n)

\* the radius of the largest inscribed circle: half the shorter side of a
\* rectangle, 2 * area / perimeter of a triangle
inradiusOf(c) ==
    LET pts == openContour(c)
        xs == { pts[i].x : i \in 1..Len(pts) }
        ys == { pts[i].y : i \in 1..Len(pts) }
        width == (CHOOSE x \in xs : \A o \in xs : o <= x) - (CHOOSE x \in xs : \A o \in xs : o >= x)
        height == (CHOOSE y \in ys : \A o \in ys : o <= y) - (CHOOSE y \in ys : \A o \in ys : o >= y)
    IN  IF Len(pts) = 4 THEN Min(width, height) \div 2
        ELSE contourArea2(c) \div contourPerimeter(c)

\* C11: contourOffset(contour, d) with d > 0 returns a contour inside the
\* input that encloses a smaller area, with d < 0 a contour around the input
\* that encloses a larger area, and the contour with its vertices in the
\* opposite order gives the same result
C11_OffsetDirection ==
    (oPc = "offset" /\ oOut.ok) =>
        /\ oDist > 0 => /\ liesInside(oOut.v, oContour)
                        /\ contourArea2(oOut.v) < contourArea2(oContour)
        /\ oDist < 0 => /\ liesInside(oContour, oOut.v)
                        /\ contourArea2(oOut.v) > contourArea2(oContour)
        /\ LET other == contourOffset(Reverse(oContour), oDist)
           IN  other.ok /\ vertexSet(other.v) = vertexSet(oOut.v)

\* C12: contourOffset returns no over-collapsed shape: a distance larger
\* than the inradius of the input gives null when it points inward, so a
\* contour returned for such a distance is the outward offset, around the input
C12_NoOverCollapse ==
    (oPc = "offset" /\ oOut.ok /\ Abs(oDist) > inradiusOf(oContour)) =>
        liesInside(oContour, oOut.v)

\* C13: when contourOffset(P, d) and contourOffset(contourOffset(P, d), -d)
\* both return a contour, the second has the vertices of P
C13_SelfInverse ==
    (oPc = "back" /\ oBack.ok) => openContour(oBack.v) = openContour(oContour)

\* C14: pocketRingsFromInnerContour returns the boundary as first ring, every
\* further ring is the offset by stepover of the ring before it and lies
\* inside it, the rings of a convex boundary end by a failing offset after
\* about inradius / stepover rings, before the cap, and there are never more
\* than 300 rings
C14_PocketRings ==
    oPc = "rings" =>
        /\ Len(oRings) >= 1 /\ oRings[1] = oContour
        /\ \A k \in 2..Len(oRings) :
              /\ Some(oRings[k]) = contourOffset(oRings[k - 1], oStepover)
              /\ liesInside(oRings[k], oRings[k - 1])
        /\ Len(oRings) <= CeilDiv(inradiusOf(oContour), oStepover) + 1
        /\ Len(oRings) < MAX_POCKET_RINGS
        /\ ~contourOffset(oRings[Len(oRings)], oStepover).ok
        /\ Len(oRings) <= MAX_POCKET_RINGS

----------------------------------------------------------------------------
(* Pocket Path Planner: properties of the circle spiral                     *)

spiralOuterR == FloorDiv(sIn.diameter, 2) - sIn.toolRadius
spiralSegs == segmentsForCircleRadius
claimedTurns == Max(1, CeilDiv(spiralOuterR - sIn.toolRadius, sIn.stepover))

\* the path is a full ring at the tool radius, a spiral of claimedTurns turns
\* whose radius is the linear interpolation at its angle, and a full closing
\* ring at the outer radius; the angle advances by one segment per point
\* (a whole turn apart where the first ring hands over to the spiral), the
\* radius never decreases, never exceeds the outer radius and grows by at
\* most stepover over the points of one full turn
ringSpiralRing ==
    LET n == Len(sPolar)
        steps == spiralSegs * claimedTurns
        span == spiralOuterR - sIn.toolRadius
    IN  /\ n = (spiralSegs + 1) + steps + spiralSegs
        /\ \A k \in 1..(spiralSegs + 1) : sPolar[k] = [r |-> sIn.toolRadius, a |-> k - 1]
        /\ \A i \in 1..steps :
              /\ sPolar[spiralSegs + 1 + i].a = i
              /\ steps * (sPolar[spiralSegs + 1 + i].r - sIn.toolRadius) <= span * i
              /\ steps * (sPolar[spiralSegs + 1 + i].r + 1 - sIn.toolRadius) > span * i
        /\ \A k \in 1..spiralSegs :
              sPolar[spiralSegs + 1 + steps + k] = [r |-> spiralOuterR, a |-> steps + k]
        /\ \A k \in 2..n : sPolar[k].r >= sPolar[k - 1].r
        /\ \A k \in 2..n : (sPolar[k].a - sPolar[k - 1].a) % spiralSegs = 1 % spiralSegs
        /\ \A k \in 1..n : sPolar[k].r <= spiralOuterR
        /\ \A k \in 1..n : \A j \in k..Min(n, k + spiralSegs) :
              sPolar[j].r - sPolar[k].r <= sIn.stepover

\* C15 as stated: for D/2 - r >= r the path of generateSpiralPocketCircle is
\* ring, spiral of ceil((D/2 - 2r) / stepover) turns (at least 1), closing ring
C15_Original ==
    (sPc = "done" /\ spiralOuterR >= sIn.toolRadius) => ringSpiralRing

\* C15: for D/2 - r > r the path of generateSpiralPocketCircle is a full ring
\* at radius r, a spiral of ceil((D/2 - 2r) / stepover) turns whose radius
\* grows linearly with the angle, and a closing ring at radius D/2 - r; the
\* radius never decreases, never exceeds D/2 - r and grows by at most stepover
\* per full turn.  For D/2 - r = r the path is one full ring at radius r
C15_SpiralCircle ==
    sPc = "done" =>
        /\ spiralOuterR > sIn.toolRadius => ringSpiralRing
        /\ spiralOuterR = sIn.toolRadius =>
              /\ Len(sPolar) = spiralSegs + 1
              /\ \A k \in 1..(spiralSegs + 1) : sPolar[k] = [r |-> sIn.toolRadius, a |-> k - 1]

\* a 50 mm pocket cut with a 6 mm tool: the closing ring is at 22 mm, after a
\* spiral of several turns
C15_Witness ==
    /\ sPc = "done" /\ sIn.diameter = 5000 /\ sIn.toolRadius = 300 /\ sIn.stepover = 300
    /\ claimedTurns = 7
    /\ sPolar[Len(sPolar)].r = 2200

----------------------------------------------------------------------------
(* Entry & Ramp Planner: properties of the linear ramp along the contour    *)

\* the call that has just returned took the ramp along the contour: ramp
\* entry, no helix, no plunge outside, a path of at least two points
afterContourRamp ==
    /\ afterLayer /\ params.cutParams.entryMethod = "ramp"
    /\ \/ params.shape # "letters" /\ params.operation = "contour" /\ ~params.plungeOutside
       \/ /\ params.shape = "letters" /\ params.letterMode = "outline"
          /\ ~(params.plungeOutside /\ lastPathIdx = 0)
    /\ Len(paths[lastPathIdx + 1]) >= 2
    /\ \E k \in 1..Len(added) : added[k].type = "cut"

\* the position the ramp starts from: the move before the first cut
rampFrom == IF firstCutIdx > 1 THEN added[firstCutIdx - 1] ELSE gMoves[from]

\* XY distance travelled from rampFrom to the end of added[j]
RECURSIVE rampRun(_)
rampRun(j) ==
    IF j < firstCutIdx THEN 0
    ELSE rampRun(j - 1) + distance2D(IF j = firstCutIdx THEN rampFrom ELSE added[j - 1], added[j])

\* |targetZ - startZ| / tan(rampAngle)
rampRunRequired == (rampFrom.z - layerDepth) * params.cutParams.rampCot

\* C16: in the ramp along the contour every move down to the layer depth is
\* a cut whose Z does not rise and is not below the layer depth, Z falls
\* from the Z the ramp starts at in proportion to the XY distance travelled
\* (to the grid unit), and the layer depth is reached after an XY run of
\* |targetZ - startZ| / tan(rampAngle) (to the rounding of the segment
\* lengths), whatever the number of laps around the contour
C16_LinearRamp ==
    afterContourRamp =>
        /\ rampFrom.z >= layerDepth
        /\ \E k \in firstCutIdx..Len(added) : added[k].z = layerDepth
        /\ \A j \in firstCutIdx..firstAtDepth :
              /\ added[j].type = "cut"
              /\ added[j].z >= layerDepth
              /\ added[j].z <= (IF j = firstCutIdx THEN rampFrom.z ELSE added[j - 1].z)
              /\ rampRunRequired > 0 =>
                    Abs((rampFrom.z - added[j].z) * rampRunRequired
                        - (rampFrom.z - layerDepth) * rampRun(j)) <= rampRunRequired
        /\ Abs(rampRun(firstAtDepth) - rampRunRequired) <= 2

----------------------------------------------------------------------------
(* Entry & Ramp Planner: the helical ramp of the pockets                    *)

\* the call that has just returned entered by the helical ramp: ramp entry
\* of a pocket path, with a tool radius
afterHelixRamp ==
    /\ afterLayer /\ params.cutParams.entryMethod = "ramp"
    /\ toolRadiusOf(params) > 0
    /\ params.shape # "letters" /\ params.operation = "pocket"

\* the points of the helix: the cuts of the call above the layer depth
helixPoints == {added[k] : k \in {j \in 1..Len(added) : added[j].type = "cut" /\ added[j].z > layerDepth}}

\* the inner clearance of a round or rectangular pocket
innerClearance == maxHelixRadiusPocketOf(params.shape, params.shapeParams, toolRadiusOf(params)).v

\* m lies within the tool-radius-compensated boundary of the pocket the
\* call cuts, to the grid unit: the circle of radius D/2 - r about the
\* centre of the pocket or of the hole, the rectangle of half sides
\* w/2 - r and h/2 - r
inCompensatedBoundary(m) ==
    CASE params.shape = "circle" ->
            m.x * m.x + m.y * m.y <= (innerClearance + 1) * (innerClearance + 1)
      [] params.shape = "patterned_holes" ->
            LET c == pocketCentersOf(params.shapeParams)[lastPathIdx + 1]
            IN  (m.x - c.x) * (m.x - c.x) + (m.y - c.y) * (m.y - c.y)
                    <= (innerClearance + 1) * (innerClearance + 1)
      [] params.shape = "square" ->
            /\ Abs(m.x) <= FloorDiv(params.shapeParams.size, 2) - toolRadiusOf(params) + 1
            /\ Abs(m.y) <= FloorDiv(params.shapeParams.size, 2) - toolRadiusOf(params) + 1
      [] params.shape = "rectangle" ->
            /\ Abs(m.x) <= FloorDiv(params.shapeParams.width, 2) - toolRadiusOf(params) + 1
            /\ Abs(m.y) <= FloorDiv(params.shapeParams.height, 2) - toolRadiusOf(params) + 1
      [] OTHER -> TRUE

\* the ring call of a letter pocket that has just returned entered by the
\* helical ramp
afterLetterHelix ==
    /\ lPc = "rings" /\ lCalls >= 1 /\ lParams.cutParams.entryMethod = "ramp"
    /\ lParams.cutParams.toolDiameter > 0

lastRingIdx == (lCalls - 1) % Len(lRings)

\* the points of the helix of that call
letterHelixPoints ==
    {lAdded[k] : k \in {j \in 1..Len(lAdded) :
                          /\ lAdded[j].type = "cut"
                          /\ lAdded[j].z > lDepths[(lCalls - 1) \div Len(lRings) + 1]}}

\* m lies within a ring of the letter contour whose ring the call cuts
inLetterRings(m) ==
    \E k \in 1..Len(lRings) :
        /\ lOwner[k] = lOwner[lastRingIdx + 1]
        /\ inConvex(m, openContour(lRings[k]))

\* C17: in every use of the helical ramp no point of the helix lies outside
\* the tool-radius-compensated boundary of the feature being cut: the
\* compensated circle or rectangle of a pocket, the rings of the contour of
\* a letter pocket
C17_HelixInsideFeature ==
    /\ afterHelixRamp => \A m \in helixPoints : inCompensatedBoundary(m)
    /\ afterLetterHelix => \A m \in letterHelixPoints : inLetterRings(m)

----------------------------------------------------------------------------
(* Arc-Fitting Post-Processor: properties                                   *)

\* three points on one line
collinear(p1, p2, p3) == (p2.x - p1.x) * (p3.y - p1.y) - (p2.y - p1.y) * (p3.x - p1.x) = 0

\* the segments the round of fitArcsToPoints just taken has pushed
pushed == SubSeq(fResult', Len(fResult) + 1, Len(fResult'))

\* C18: a round of fitArcsToPoints pushes an arc only for a prefix
\* points[i..j) of at least three points whose circle through the first,
\* the middle and the last point exists and has every point between the
\* first and the last within 0.03 mm of it, the arc ending on the last
\* point of the prefix; and it pushes only lines when the run has fewer
\* than 3 points, when fewer than 3 points remain, or when the next three
\* points are collinear
C18_FitArcs ==
    [][(aPc = "fit" /\ fResult' # fResult) =>
          /\ \A s \in 1..Len(pushed) : pushed[s].type = "arc" =>
                /\ Len(pushed) = 1 /\ fI' - fI >= 3
                /\ pushed[s].x = pointAt(fPoints, fI' - 1).x
                /\ pushed[s].y = pointAt(fPoints, fI' - 1).y
                /\ LET circle == circleFromThreePoints(pointAt(fPoints, fI),
                                                       pointAt(fPoints, (fI + fI') \div 2),
                                                       pointAt(fPoints, fI' - 1))
                   IN  /\ circle.ok
                       /\ \A k \in (fI + 1)..(fI' - 2) :
                             ~pointToCircleDeviationExceeds(pointAt(fPoints, k), circle.v, 3)
          /\ (\/ Len(fPoints) < 3
              \/ Len(fPoints) - fI < 3
              \/ collinear(pointAt(fPoints, fI), pointAt(fPoints, fI + 1), pointAt(fPoints, fI + 2)))
                => \A s \in 1..Len(pushed) : pushed[s].type = "line"
      ]_vars

\* a run of four points became one arc although its second point is not on
\* the circle through the first, the third and the last (0.001 mm inside)
C18_Witness ==
    /\ aPc = "fit" /\ fI = 4 /\ Len(fResult) = 1 /\ fResult[1].type = "arc"
    /\ [k \in 1..4 |-> Pt(fPoints[k].x, fPoints[k].y)] = <<Pt(10, 0), Pt(7, 7), Pt(6, 8), Pt(0, 10)>>

\* the rapids of a move list, in order
rapidsOf(moves) == SelectSeq(moves, LAMBDA m : m.type = "rapid")

\* the arc aMoves[k] is a circular arc from the end of the move before it:
\* the centre its (i, j) gives from that point is as far from the arc's end
\* as from its start
arcFromPreviousEnd(k) ==
    /\ k > 1
    /\ LET a == aMoves[k]
           prev == aMoves[k - 1]
           ex == (prev.x - a.x) * a.den + a.iNum
           ey == (prev.y - a.y) * a.den + a.jNum
       IN  ex * ex + ey * ey = a.iNum * a.iNum + a.jNum * a.jNum

\* the move ends on a point of the input, at that point's Z
endsOnInputPoint(m) == \E k \in 1..Len(aIn) : aIn[k].x = m.x /\ aIn[k].y = m.y /\ aIn[k].z = m.z

\* C19: in the list replaceCutRunsWithArcs leaves, every arc starts at the
\* end of the move before it with (i, j) relative to that point, every move
\* ends on a point of the input with that point's own Z, and the rapids are
\* those of the input, unchanged and in order
C19_SamePath ==
    aPc = "done" =>
        /\ \A k \in 1..Len(aMoves) : aMoves[k].type = "arc" => arcFromPreviousEnd(k)
        /\ \A k \in 1..Len(aMoves) : endsOnInputPoint(aMoves[k])
        /\ rapidsOf(aMoves) = rapidsOf(aIn)

\* the box of the nominal shape of request p, before any tool compensation,
\* about the centre the paths are generated around
nominalBox(p) ==
    LET sp == p.shapeParams
        half(v) == FloorDiv(v, 2)
    IN  CASE p.shape = "circle" ->
               [minX |-> -half(sp.diameter), maxX |-> half(sp.diameter),
                minY |-> -half(sp.diameter), maxY |-> half(sp.diameter)]
          [] p.shape = "ellipse" ->
               [minX |-> -half(sp.major), maxX |-> half(sp.major),
                minY |-> -half(sp.minor), maxY |-> half(sp.minor)]
          [] p.shape = "square" ->
               [minX |-> -half(sp.size), maxX |-> half(sp.size),
                minY |-> -half(sp.size), maxY |-> half(sp.size)]
          [] p.shape = "rectangle" ->
               [minX |-> -half(sp.width), maxX |-> half(sp.width),
                minY |-> -half(sp.height), maxY |-> half(sp.height)]
          [] p.shape = "patterned_holes" ->
               [minX |-> -half(sp.diameter),
                maxX |-> (sp.countX - 1) * sp.spacingX + half(sp.diameter),
                minY |-> -half(sp.diameter),
                maxY |-> (sp.countY - 1) * sp.spacingY + half(sp.diameter)]

\* the corner of the nominal shape that xyOrigin names
nominalCorner(p) ==
    LET b == nominalBox(p)
        o == p.originParams.xyOrigin
    IN  [x |-> IF o \in {"bottom_right", "top_right"} THEN b.maxX ELSE b.minX,
         y |-> IF o \in {"top_left", "top_right"} THEN b.maxY ELSE b.minY]

\* where applyOriginTransform has put the named corner: every move is
\* shifted alike, so the shift is read off the first move
cornerAfterTransform ==
    [x |-> nominalCorner(params).x + outMoves[1].x - gMoves[1].x,
     y |-> nominalCorner(params).y + outMoves[1].y - gMoves[1].y]

transformedToCorner ==
    /\ gPc = "done"
    /\ params.shape # "letters"
    /\ params.originParams.xyOrigin # "center"
    /\ Len(outMoves) > 0

\* C20: after applyOriginTransform with a corner xyOrigin the corner of the
\* nominal shape named by xyOrigin lies at (0,0), for outside contour, inside
\* contour and pocket, whatever the entry method and the plunge-outside
\* setting of the request
C20_CornerAtOrigin ==
    transformedToCorner => cornerAfterTransform = [x |-> 0, y |-> 0]

\* the part of it that holds: requests without plunge outside whose shape is
\* wider than the tool
C20_CornerAtOrigin_PathOnly ==
    (/\ transformedToCorner
     /\ ~params.plungeOutside
     /\ getShapeMinSize(params.shape, params.shapeParams) > params.cutParams.toolDiameter)
        => cornerAfterTransform = [x |-> 0, y |-> 0]

\* a circle pocket wider than the tool, entered by plunge, of several layers
circlePocketByPlunge ==
    /\ params.shape = "circle" /\ params.operation = "pocket"
    /\ params.cutParams.entryMethod = "plunge"
    /\ params.shapeParams.diameter > params.cutParams.toolDiameter
    /\ Len(depths) >= 2

\* the spiral path walked once at depth z
spiralWalk(z) == [k \in 1..Len(paths[1]) |-> Cut(paths[1][k].x, paths[1][k].y, z)]

\* the call that has just returned walked the spiral once at its depth: the
\* moves it appended end with the walk, and before the walk only the arrival
\* of the plunge is at that depth
walkedOnce ==
    LET n == Len(added)
        w == Len(paths[1])
    IN  /\ n > w
        /\ SubSeq(added, n - w + 1, n) = spiralWalk(layerDepth)
        /\ \A j \in 1..(n - w - 1) : added[j].z # layerDepth

\* index in gMoves of the first cut move
firstCutOfToolpath ==
    CHOOSE k \in 1..Len(gMoves) :
        gMoves[k].type = "cut" /\ \A j \in 1..(k - 1) : gMoves[j].type # "cut"

\* every depth level is below the stock surface and below the level before it
levelsDescend == \A k \in 1..Len(depths) : depths[k] < 0 /\ (k > 1 => depths[k] < depths[k - 1])

\* the spiral is walked once by every call, and the finished toolpath cuts
\* from its first cut to the final retract, a rapid to safe height
spiralOncePerLayer ==
    /\ afterLayer => walkedOnce
    /\ gPc = "done" =>
          /\ calls = Len(depths)
          /\ \E k \in 1..Len(gMoves) : gMoves[k].type = "cut"
          /\ \A j \in firstCutOfToolpath..(Len(gMoves) - 1) :
                gMoves[j].type = "cut" /\ gMoves[j].z < params.cutParams.safeHeight
          /\ LastMove(gMoves) = Rapid(LastMove(gMoves).x, LastMove(gMoves).y,
                                      params.cutParams.safeHeight)

----------------------------------------------------------------------------
(* Letter pocket: properties                                                *)

\* the contours of the text of the letter pocket request
letterContours == lettersOf(lParams.shapeParams.text)

\* contour i of the text is skipped: it is too small for the tool, or its
\* offset by the tool radius fails
contourSkipped(i) ==
    ~letterInnerBoundary(letterContours[i], lParams.cutParams.toolDiameter,
                         FloorDiv(lParams.cutParams.toolDiameter, 2)).ok

\* the contours of the text that survive, in order
survivors == SelectSeq([i \in 1..Len(letterContours) |-> i], LAMBDA i : ~contourSkipped(i))

\* the ring the last call was for, and the cuts of the call at its depth
lastRing == lRings[lastRingIdx + 1]
ringMachined ==
    \A k \in 1..Len(lastRing) :
        \E j \in 1..Len(lAdded) :
            lAdded[j] = Cut(lastRing[k].x, lastRing[k].y, lDepths[(lCalls - 1) \div Len(lRings) + 1])

----------------------------------------------------------------------------
(* Facing: properties                                                       *)

\* the call that has just returned was for a strip of a facing operation that
\* is not the first of its depth level
afterNextStrip == afterLayer /\ params.operation = "facing" /\ lastPathIdx > 0

\* C23: in a facing operation the tool is kept down: between two consecutive
\* strips of the same depth level no retract to safe height and no rapid move
\* is emitted; the tool goes from the end of one strip to the start of the
\* next at cutting depth
C23_FacingKeepsToolDown ==
    afterNextStrip =>
        \A j \in 1..Len(added) :
            /\ added[j].type = "cut"
            /\ added[j].z < params.cutParams.safeHeight
            /\ added[j].z = layerDepth

----------------------------------------------------------------------------
(* Tabs: the material of a tab                                              *)

\* C24: with tabs enabled on a contour the material of a tab is never cut
\* away: on every depth layer, intermediate and final, with plunge and with
\* ramp entry, no cut over the flat middle of a tab range is below
\* tabZ = -(totalDepth - tabHeight)
C24_TabsNeverCut ==
    afterTabLayer =>
        \A k \in 1..Len(gTabConfig.v.ranges) : ~cutsBelowTabTop(gTabConfig.v.ranges[k])

----------------------------------------------------------------------------
(* Continuation between depth levels                                        *)

\* the call that has just returned was for the first path of a depth level
\* after the first, in a toolpath with several paths per level
afterFirstPathOfNextLevel ==
    /\ afterLayer /\ callsPerLayer(params, paths) > 1
    /\ lastPathIdx = 0 /\ lastDepthIndex > 0 /\ from >= 1

\* indices in `added` of the moves that leave the X, Y of the move before them
leavesXY ==
    {j \in 1..Len(added) :
        LET prev == IF j = 1 THEN gMoves[from] ELSE added[j - 1]
        IN  added[j].x # prev.x \/ added[j].y # prev.y}

\* C25: continuation without retract is applied only onto the same path: when
\* a depth level has several independent paths (patterned holes, letter
\* outline contours, facing strips), the first path of the next depth level
\* is entered after a retract to safe height, so the tool leaves the end of
\* the last path of the level before by a rapid at safe height, never by a cut
C25_NoCutBetweenPaths ==
    (afterFirstPathOfNextLevel /\ leavesXY # {}) =>
        LET j == CHOOSE k \in leavesXY : \A l \in leavesXY : k <= l
        IN  /\ added[j].type = "rapid"
            /\ added[j].z = params.cutParams.safeHeight

\* the moves appended by the latest step of generateToolpath, by index
latest == (from + 1)..Len(gMoves)

\* move j starts where move j - 1 ended and ends at another X or Y
changesXY(j) == j > 1 /\ (gMoves[j].x # gMoves[j - 1].x \/ gMoves[j].y # gMoves[j - 1].y)

\* C26: before the origin transform every rapid move of generateToolpath ends
\* at Z >= 0, and a rapid that changes X or Y starts and ends at safe height
\* (the first move of the list ends at safe height), so every move in X or Y
\* below safe height is a cut
C26_RapidsAboveStock ==
    gPc \in {"layers", "done"} =>
        \A j \in latest :
            gMoves[j].type = "rapid" =>
                /\ gMoves[j].z >= 0
                /\ j = 1 => gMoves[j].z = params.cutParams.safeHeight
                /\ changesXY(j) => /\ gMoves[j - 1].z = params.cutParams.safeHeight
                                   /\ gMoves[j].z = params.cutParams.safeHeight

\* a step has appended a rapid across X/Y at safe height, a rapid straight
\* down to the lead-in height below it, and a cut that moves in X or Y below
\* the stock surface
C26_Witness ==
    /\ gPc = "layers"
    /\ \E j \in latest : gMoves[j].type = "rapid" /\ changesXY(j)
    /\ \E j \in latest : /\ gMoves[j].type = "rapid" /\ ~changesXY(j)
                         /\ gMoves[j].z < params.cutParams.safeHeight
    /\ \E j \in latest : gMoves[j].type = "cut" /\ changesXY(j) /\ gMoves[j].z < 0
    /\ C26_RapidsAboveStock

\* C27: a request with ramp entry never leaves generateToolpath in a loop that
\* does not end: neither the helical descent nor the wrap-around loop of the
\* contour ramp is still running after any number of rounds
C27_RampTerminates ==
    params.cutParams.entryMethod = "ramp" => gPc # "hang"

\* half sides of the tool-radius-compensated rectangle of the request
rectHw == FloorDiv(IF rIn.shape = "square" THEN rIn.shapeParams.size ELSE rIn.shapeParams.width, 2) - rIn.toolRadius
rectHh == FloorDiv(IF rIn.shape = "square" THEN rIn.shapeParams.size ELSE rIn.shapeParams.height, 2) - rIn.toolRadius

\* the points of the compensated rectangle the clearance is sampled at, 0.5 mm
\* apart from the bottom left corner
samplePoints ==
    {Pt(-rectHw + i * 50, -rectHh + j * 50) :
        i \in 0..((2 * rectHw) \div 50), j \in 0..((2 * rectHh) \div 50)}

\* squared distance of p from the axis-parallel segment a-b
distSqToSegment(p, a, b) ==
    LET nx == Max(Min(a.x, b.x), Min(p.x, Max(a.x, b.x)))
        ny == Max(Min(a.y, b.y), Min(p.y, Max(a.y, b.y)))
    IN  (p.x - nx) * (p.x - nx) + (p.y - ny) * (p.y - ny)

\* the tool centre passes within one tool radius of p
clearedAt(p) ==
    \E k \in 1..(Len(rPath) - 1) :
        distSqToSegment(p, rPath[k], rPath[k + 1]) <= rIn.toolRadius * rIn.toolRadius

\* number of windings the while loop makes: L < R and B < T hold k times
windingCount == CeilDiv(Min(rectHw, rectHh), rIn.stepover)

\* p lies on the innermost winding, the rectangle windingCount - 1 stepovers
\* in, or on the connector that leads inward from it
onInnermostWinding(p) ==
    /\ Abs(p.x) <= rectHw - (windingCount - 1) * rIn.stepover
    /\ Abs(p.y) <= rectHh - (windingCount - 1) * rIn.stepover

\* C28: for every stepover up to the tool diameter, every point of the
\* compensated rectangle is within one tool radius of the path returned by
\* generateSpiralPocketRectangle, and the path starts on the innermost winding
C28_RectangleCleared ==
    (rPc = "done" /\ rIn.stepover <= 2 * rIn.toolRadius /\ rPath # << >>) =>
        /\ \A p \in samplePoints : clearedAt(p)
        /\ onInnermostWinding(rPath[1])

\* the latest layer belongs to an inside contour with plunge-outside whose
\* path is not a single point
insideContourEntry ==
    /\ afterLayer
    /\ params.shape # "letters" /\ params.operation = "contour"
    /\ params.contourType = "inside" /\ params.plungeOutside
    /\ Len(paths[1]) >= 2

\* the entry point addLayerForPath computed for that layer
contourEntryStart ==
    entryStartOf(paths[1], paths[1][1], TRUE, TRUE, params.cutParams.toolDiameter)

\* p lies within the bounding box of the path
withinPathBox(p, path) ==
    /\ \E i \in 1..Len(path) : path[i].x <= p.x
    /\ \E i \in 1..Len(path) : path[i].x >= p.x
    /\ \E i \in 1..Len(path) : path[i].y <= p.y
    /\ \E i \in 1..Len(path) : path[i].y >= p.y

\* C29: the entry point of an inside contour with plunge-outside, 1.5 tool
\* diameters from the path's start toward its centre, does not pass beyond the
\* opposite side of the contour path: it lies within the path's extent
C29_EntryInsideContour ==
    insideContourEntry => withinPathBox(contourEntryStart, paths[1])

\* no submission is waiting for loadLetterFont any more
settled == \A i \in 1..Len(subs) : subs[i].pc # "await"

\* C30: once all submissions have settled and the most recent one has
\* generated its toolpath, lastToolpath, the displayed G-code and the download
\* and copy handlers are those of the most recent submission
C30_NoStaleResult ==
    (subs # << >> /\ settled /\ subs[Len(subs)].pc = "done") =>
        /\ lastToolpath = Len(subs)
        /\ gcodeOutput = Len(subs)
        /\ downloadOnclick = Len(subs)
        /\ copyOnclick = Len(subs)

====
